---- MODULE Spec2Model ----
(***************************************************************************)
(* Model of benji's block I/O engine (src/benji/io/base.py, class IOBase), *)
(* of the Ceph RBD backup helper script (scripts/ceph.py) and of the job   *)
(* tracking of the Kubernetes operator (k8s_operator/resources.py).        *)
(*                                                                         *)
(* Part I  : IOBase - a thread pool of simultaneousReads workers, a list   *)
(*           of outstanding futures and a bounded semaphore of             *)
(*           simultaneousReads + READ_QUEUE_LENGTH permits.                *)
(* Part II : scripts/ceph.py - snapshot_create, backup_initial,            *)
(*           backup_differential, backup and restore with their blinker    *)
(*           signals.                                                      *)
(* Part III: the version assembler (deduplication, version status) and     *)
(*           the restore with the storage backend's bounded read retries   *)
(*           as the specification describes them.                          *)
(* Part IV : k8s_operator/resources.py - track_job_status with get_parent  *)
(*           and patch_parent, the dependant-jobs status list and the      *)
(*           status derived from a job.                                    *)
(***************************************************************************)
EXTENDS Integers, Sequences, FiniteSets, TLC

(***************************************************************************)
(* Bounds and program constants                                            *)
(***************************************************************************)
\* configured simultaneousReads of the engine (base.py:23)
SimultaneousReads == 1
\* IOBase.READ_QUEUE_LENGTH (base.py:16)
READ_QUEUE_LENGTH == 5
\* number of asynchronous reads submitted per open engine
MaxReads == 7
\* number of backend reads that fail per open engine
MaxFailures == 1
\* receivers connected to one signal
MaxObservers == 2
\* calls of backup / restore
MaxCalls == 3
\* seconds the clock runs
MaxTime == 3

\* BoundedSemaphore(self._simultaneous_reads + self.READ_QUEUE_LENGTH)
\* blocks of the image
NBlocks == 2
\* distinct non-zero block contents
MaxSum == 2
\* readObjectAttempts of the storage configuration
readObjectAttempts == 3
\* jobs of one parent resource
NJobs == 2
\* job events delivered to track_job_status
MaxEvents == 3
\* calls of build_resource_status_dependant_jobs in a row
MaxOps == 2
\* distinct timestamps of a job status
MaxStamp == 2
\* failed pods a job status counts
MaxFailedPods == 2

Permits == SimultaneousReads + READ_QUEUE_LENGTH

Ids == 1..MaxReads

VARIABLES
    read_executor,   \* self._read_executor: "none" | "running" | "shutdown"
    read_futures,    \* self._read_futures: sequence of future ids
    read_semaphore,  \* free permits of self._read_semaphore
    fstate,          \* state of every future (concurrent.futures.Future._state
                     \* refined by the position inside read_with_acquire)
    work_queue,      \* the executor's FIFO work queue
    nsub,            \* number of reads submitted to the open engine
    cpc,             \* position of the calling thread
    ci,              \* index of close's "for future in self._read_futures"
    gen,             \* state of the read_get_completed generator
    genPending,      \* futures the generator still has to yield
    genSnap,         \* futures handed to the generator when it started
    genSub,          \* nsub when the generator started
    genYielded,      \* <<future, outcome, completion number>> of every result
                     \* the generator has yielded, in order
    completed,       \* <<future, completion number>> of the finished futures
                     \* that were not retrieved yet, in completion order
    ndone,           \* number of futures that have finished
    nfail,           \* number of backend reads that have failed
    yields,          \* how often each future's outcome was handed to the caller
    sync_result      \* what the last read(block, sync=True) gave its caller

genVars == <<gen, genPending, genSnap, genSub, genYielded>>

ioVars == <<read_executor, read_futures, read_semaphore, fstate, work_queue,
            nsub, cpc, ci, genVars, completed, ndone, nfail, yields,
            sync_result>>

VARIABLES
    pc,              \* position of the script inside backup / restore
    op,              \* the function of ceph.py that was called
    kind,            \* "initial" or "differential": the backup_* being run
    snaps,           \* RBD snapshots of the image, by id (newest last)
    versions,        \* Benji versions of the volume; the uid is the index
    now,             \* datetime.utcnow(), in seconds
    ncalls,          \* calls of backup / restore made so far
    observers,       \* receivers connected to each post_error signal
    log,             \* signals sent during the current call, in order
    exc,             \* the exception in flight: "none", "error", "TypeError"
    outcome,         \* how the call ended: "none", "returned", "raised"
    result,          \* local variable result (0: None)
    todel,           \* benjis_snapshots[:-1] still to delete
    last_snapshot,   \* benjis_snapshots[-1] (0: not set)
    base_version_uid,\* uid of the base version (0: not set)
    snapshot,        \* name of the snapshot being created (0: not set)
    snapFailed,      \* rbd snap create raised during the current call
    lastSig,         \* post_error signal sent by the last handler
    lastVotes,       \* what its receivers returned, as booleans
    lastCaught,      \* the exception that handler caught
    lastDecision,    \* "reraise", "suppress" or "TypeError"
    image,           \* data of every block of the RBD image
    snapdata,        \* data of every block of each existing snapshot
    hints            \* stdout of rbd diff: the blocks to read

cephVars == <<pc, op, kind, snaps, versions, now, ncalls, observers, log, exc,
              outcome, result, todel, last_snapshot, base_version_uid,
              snapshot, snapFailed, lastSig, lastVotes, lastCaught,
              lastDecision, image, snapdata, hints>>

VARIABLES
    source,          \* backup: checksum of every block of the volume (0: sparse)
    vstatus,         \* backup: status of the version being assembled
    vmap,            \* backup: the version's block map (Unset, Null or a
                     \* checksum)
    cursor,          \* backup: block index the control flow looks at next
    bstate,          \* backup: what happens to each block
    known,           \* the known-checksums index
    claimed,         \* checksums claimed for a first write that is running
    objects,         \* StoredObjects of the backend: checksum -> payload
    puts,            \* stores attempted per checksum during this backup
    commits,         \* StoredObjects ever committed per checksum
    rmap,            \* restore: block map of the version being restored
    rstatus,         \* restore: "idle", "running", "done" or "failed"
    rerror,          \* restore: the error it was aborted with
    rcursor,         \* restore: block index the control flow looks at next
    rstate,          \* restore: what happens to each block
    attempts,        \* restore: backend gets attempted per block
    written          \* restore: blocks written to the destination

backupVars == <<source, vstatus, vmap, cursor, bstate, known, claimed,
                objects, puts, commits>>
restoreVars == <<rmap, rstatus, rerror, rcursor, rstate, attempts, written>>
coreVars == <<backupVars, restoreVars>>

VARIABLES
    custom_object,   \* the parent custom resource as the API server holds it
    parent_exists,   \* whether the parent custom resource exists
    tpc,             \* per job: position of its track_job_status handler
    event,           \* per job: the event its handler was called with
    parent,          \* per job: the handler's local parent
    parent_patch,    \* per job: the handler's local parent_patch
    toutcome,        \* per job: how its last handler ended
    job_deletes,     \* per job: delete_namespaced_job calls of its last handler
    nevents,         \* events delivered so far
    status,          \* the status dict handed to the last
                     \* build_resource_status_dependant_jobs, after the call
    dependant_jobs,  \* the status dict the last call returned
    ops,             \* the calls of build_resource_status_dependant_jobs
    job_status,      \* argument of derive_job_status
    derived_status,  \* what derive_job_status returned
    dependant_job_status  \* what build_dependant_job_status returned

trackVars == <<custom_object, parent_exists, tpc, event, parent, parent_patch,
               toutcome, job_deletes, nevents>>
statusVars == <<status, dependant_jobs, ops>>
jobVars == <<job_status, derived_status, dependant_job_status>>
k8sVars == <<trackVars, statusVars, jobVars>>

vars == <<ioVars, cephVars, coreVars, k8sVars>>

(***************************************************************************)
(* Helpers                                                                 *)
(***************************************************************************)
Range(s) == {s[i] : i \in DOMAIN s}

RECURSIVE Remove(_, _)
\* list.remove(x): the sequence without its first occurrence of x
Remove(s, x) ==
    IF s = <<>> THEN <<>>
    ELSE IF Head(s) = x THEN Tail(s)
    ELSE <<Head(s)>> \o Remove(Tail(s), x)

RECURSIVE FirstIn(_, _)
\* first entry <<f, n>> of sequence s whose future f lies in set S
\* (<<0, 0>> when there is none)
FirstIn(s, S) ==
    IF s = <<>> THEN <<0, 0>>
    ELSE IF Head(s)[1] \in S THEN Head(s)
    ELSE FirstIn(Tail(s), S)

\* futures executed by a worker thread right now
Running == {i \in Ids : fstate[i] \in {"running", "reading"}}

\* futures whose read_with_acquire has acquired a permit that was not given back
Holders == {i \in Range(read_futures) : fstate[i] \in {"reading", "ok", "err"}}

\* Future.cancelled()
Cancelled(i) == fstate[i] \in {"cancelled", "cancelled_notified"}

\* what future.result() gives: the (block, data) pair, the raised exception
\* or CancelledError
Outcome(i) ==
    CASE fstate[i] = "ok" -> "data"
      [] fstate[i] = "err" -> "error"
      [] OTHER -> "cancelled"

(***************************************************************************)
(* Part I - IOBase                                                         *)
(***************************************************************************)
IOInit ==
    /\ read_executor = "none"
    /\ read_futures = <<>>
    /\ read_semaphore = 0
    /\ fstate = [i \in Ids |-> "unsubmitted"]
    /\ work_queue = <<>>
    /\ nsub = 0
    /\ cpc = "unopened"
    /\ ci = 0
    /\ gen = "none"
    /\ genPending = {}
    /\ genSnap = {}
    /\ genSub = 0
    /\ genYielded = <<>>
    /\ completed = <<>>
    /\ ndone = 0
    /\ nfail = 0
    /\ yields = [i \in Ids |-> 0]
    /\ sync_result = "none"

\* the generator object is dropped
GenDiscard ==
    /\ gen' = "none"
    /\ genPending' = {}
    /\ genSnap' = {}
    /\ genSub' = 0
    /\ genYielded' = <<>>

\* IOBase.open_r: a new executor, an empty list of futures and a semaphore
\* with all its permits.  The caller opens an engine that is not open (a new
\* instance, or one whose close has returned).
open_r ==
    /\ cpc \in {"unopened", "closed"}
    /\ read_executor' = "running"
    /\ read_futures' = <<>>
    /\ read_semaphore' = Permits
    /\ fstate' = [i \in Ids |-> "unsubmitted"]
    /\ work_queue' = <<>>
    /\ nsub' = 0
    /\ cpc' = "ready"
    /\ ci' = 0
    /\ GenDiscard
    /\ completed' = <<>>
    /\ ndone' = 0
    /\ nfail' = 0
    /\ yields' = [i \in Ids |-> 0]
    /\ UNCHANGED <<sync_result, cephVars, coreVars, k8sVars>>

\* read that submits the job and forgets its future
read_not_recorded ==
    /\ cpc = "ready"
    /\ read_executor = "running"
    /\ nsub < MaxReads
    /\ nsub' = nsub + 1
    /\ fstate' = [fstate EXCEPT ![nsub + 1] = "pending"]
    /\ work_queue' = Append(work_queue, nsub + 1)
    /\ IF gen = "ended" THEN GenDiscard ELSE UNCHANGED genVars
    /\ UNCHANGED <<read_executor, read_futures, read_semaphore, cpc, ci,
                   completed, ndone, nfail, yields>>
    /\ UNCHANGED <<sync_result, cephVars, coreVars, k8sVars>>

\* IOBase.read(block, sync=False): the job read_with_acquire is submitted to
\* the executor and its future appended to self._read_futures.  submit() puts
\* the job on the executor's unbounded work queue and returns.
read ==
    /\ cpc = "ready"
    /\ read_executor = "running"
    /\ nsub < MaxReads
    /\ nsub' = nsub + 1
    /\ fstate' = [fstate EXCEPT ![nsub + 1] = "pending"]
    /\ work_queue' = Append(work_queue, nsub + 1)
    /\ read_futures' = Append(read_futures, nsub + 1)
    /\ IF gen = "ended" THEN GenDiscard ELSE UNCHANGED genVars
    /\ UNCHANGED <<read_executor, read_semaphore, cpc, ci, completed, ndone,
                   nfail, yields>>
    /\ UNCHANGED <<sync_result, cephVars, coreVars, k8sVars>>

\* read(block, sync=True) that goes through the semaphore
read_sync_acquire ==
    /\ cpc = "ready"
    /\ read_executor = "running"
    /\ read_semaphore > 0
    /\ read_semaphore' = read_semaphore - 1
    /\ cpc' = "sync_read"
    /\ sync_result' = "none"
    /\ UNCHANGED <<read_executor, read_futures, fstate, work_queue, nsub, ci,
                   genVars, completed, ndone, nfail, yields>>
    /\ UNCHANGED <<cephVars, coreVars, k8sVars>>

\* IOBase.read(block, sync=True), lines 44-45: the calling thread enters
\* self._read(block)
read_sync ==
    /\ cpc = "ready"
    /\ read_executor = "running"
    /\ cpc' = "sync_read"
    /\ sync_result' = "none"
    /\ UNCHANGED <<read_executor, read_futures, read_semaphore, fstate,
                   work_queue, nsub, ci, genVars, completed, ndone, nfail,
                   yields>>
    /\ UNCHANGED <<cephVars, coreVars, k8sVars>>

\* IOBase.read(block, sync=True), line 45: self._read(block) returns and the
\* caller gets the data, or it raises
read_sync_return(ok) ==
    /\ cpc = "sync_read"
    /\ cpc' = "ready"
    /\ sync_result' = IF ok THEN "data" ELSE "error"
    /\ UNCHANGED <<read_executor, read_futures, read_semaphore, fstate,
                   work_queue, nsub, ci, genVars, completed, ndone, nfail,
                   yields>>
    /\ UNCHANGED <<cephVars, coreVars, k8sVars>>

\* a pool that starts a thread for every work item
WorkerTakeUnbounded ==
    /\ work_queue # <<>>
    /\ LET f == Head(work_queue) IN
         IF fstate[f] = "cancelled"
         THEN /\ fstate' = [fstate EXCEPT ![f] = "cancelled_notified"]
              /\ completed' = Append(completed, <<f, ndone + 1>>)
              /\ ndone' = ndone + 1
         ELSE /\ fstate' = [fstate EXCEPT ![f] = "running"]
              /\ UNCHANGED <<completed, ndone>>
    /\ work_queue' = Tail(work_queue)
    /\ UNCHANGED <<read_executor, read_futures, read_semaphore, nsub, cpc, ci,
                   genVars, nfail, yields>>
    /\ UNCHANGED <<sync_result, cephVars, coreVars, k8sVars>>

\* A worker thread of the pool (at most simultaneousReads of them) takes the
\* next work item: a cancelled future is only notified, any other future
\* starts running read_with_acquire.
WorkerTake ==
    /\ work_queue # <<>>
    /\ Cardinality(Running) < SimultaneousReads
    /\ LET f == Head(work_queue) IN
         IF fstate[f] = "cancelled"
         THEN /\ fstate' = [fstate EXCEPT ![f] = "cancelled_notified"]
              /\ completed' = Append(completed, <<f, ndone + 1>>)
              /\ ndone' = ndone + 1
         ELSE /\ fstate' = [fstate EXCEPT ![f] = "running"]
              /\ UNCHANGED <<completed, ndone>>
    /\ work_queue' = Tail(work_queue)
    /\ UNCHANGED <<read_executor, read_futures, read_semaphore, nsub, cpc, ci,
                   genVars, nfail, yields>>
    /\ UNCHANGED <<sync_result, cephVars, coreVars, k8sVars>>

\* read_with_acquire that takes a permit without waiting for a free one
read_without_wait(f) ==
    /\ fstate[f] = "running"
    /\ read_semaphore' = read_semaphore - 1
    /\ fstate' = [fstate EXCEPT ![f] = "reading"]
    /\ UNCHANGED <<read_executor, read_futures, work_queue, nsub, cpc, ci,
                   genVars, completed, ndone, nfail, yields>>
    /\ UNCHANGED <<sync_result, cephVars, coreVars, k8sVars>>

\* read_with_acquire that starts the backend read without a permit
read_without_acquire(f) ==
    /\ fstate[f] = "running"
    /\ fstate' = [fstate EXCEPT ![f] = "reading"]
    /\ UNCHANGED <<read_executor, read_futures, read_semaphore, work_queue,
                   nsub, cpc, ci, genVars, completed, ndone, nfail, yields>>
    /\ UNCHANGED <<sync_result, cephVars, coreVars, k8sVars>>

\* read_with_acquire, line 49: self._read_semaphore.acquire() in the worker
\* thread; blocks while no permit is free.
read_with_acquire(f) ==
    /\ fstate[f] = "running"
    /\ read_semaphore > 0
    /\ read_semaphore' = read_semaphore - 1
    /\ fstate' = [fstate EXCEPT ![f] = "reading"]
    /\ UNCHANGED <<read_executor, read_futures, work_queue, nsub, cpc, ci,
                   genVars, completed, ndone, nfail, yields>>
    /\ UNCHANGED <<sync_result, cephVars, coreVars, k8sVars>>

\* a worker that gives the permit back as soon as the backend read is over
backend_read_release(f, ok) ==
    /\ fstate[f] = "reading"
    /\ ok \/ nfail < MaxFailures
    /\ fstate' = [fstate EXCEPT ![f] = IF ok THEN "ok" ELSE "err"]
    /\ completed' = Append(completed, <<f, ndone + 1>>)
    /\ ndone' = ndone + 1
    /\ nfail' = IF ok THEN nfail ELSE nfail + 1
    /\ read_semaphore' = read_semaphore + 1
    /\ UNCHANGED <<read_executor, read_futures, work_queue, nsub, cpc, ci,
                   genVars, yields>>
    /\ UNCHANGED <<sync_result, cephVars, coreVars, k8sVars>>

\* read_with_acquire, line 50: self._read(block) returns (block, data) or
\* raises; the future is finished with the result or the exception.
backend_read(f, ok) ==
    /\ fstate[f] = "reading"
    /\ ok \/ nfail < MaxFailures
    /\ fstate' = [fstate EXCEPT ![f] = IF ok THEN "ok" ELSE "err"]
    /\ completed' = Append(completed, <<f, ndone + 1>>)
    /\ ndone' = ndone + 1
    /\ nfail' = IF ok THEN nfail ELSE nfail + 1
    /\ UNCHANGED <<read_executor, read_futures, read_semaphore, work_queue,
                   nsub, cpc, ci, genVars, yields>>
    /\ UNCHANGED <<sync_result, cephVars, coreVars, k8sVars>>

\* future_results_as_completed(futures, semaphore=...): one step of the
\* generator.  It yields the outcome of the pending future that completed
\* first, gives back the permit that operation holds and drops the future
\* (from the list, and for good: nothing refers to it any more); it ends when
\* every future it was given has been yielded.
future_results_as_completed(endpc, nextpc) ==
    /\ gen = "active"
    /\ IF genPending = {}
       THEN /\ gen' = "ended"
            /\ cpc' = endpc
            /\ UNCHANGED <<read_futures, read_semaphore, fstate, genPending,
                           genYielded, completed, yields>>
       ELSE LET c == FirstIn(completed, genPending)
                f == c[1]
            IN
            /\ f # 0
            /\ read_futures' = Remove(read_futures, f)
            /\ read_semaphore' = IF Cancelled(f) THEN read_semaphore
                                 ELSE read_semaphore + 1
            /\ genPending' = genPending \ {f}
            /\ genYielded' = Append(genYielded, <<f, Outcome(f), c[2]>>)
            /\ completed' = Remove(completed, c)
            /\ fstate' = [fstate EXCEPT ![f] = "retrieved"]
            /\ yields' = [yields EXCEPT ![f] = @ + 1]
            /\ gen' = "active"
            /\ cpc' = nextpc
    /\ UNCHANGED <<read_executor, work_queue, nsub, ci, genSnap, genSub,
                   ndone, nfail>>
    /\ UNCHANGED <<sync_result, cephVars, coreVars, k8sVars>>

\* IOBase.read_get_completed: the generator over the current futures.
read_get_completed ==
    /\ gen' = "active"
    /\ genPending' = Range(read_futures)
    /\ genSnap' = Range(read_futures)
    /\ genSub' = nsub
    /\ genYielded' = <<>>

\* the caller starts iterating read_get_completed()
DrainStart ==
    /\ cpc = "ready"
    /\ read_executor = "running"
    /\ gen # "active"
    /\ read_get_completed
    /\ UNCHANGED <<read_executor, read_futures, read_semaphore, fstate,
                   work_queue, nsub, cpc, ci, completed, ndone, nfail, yields>>
    /\ UNCHANGED <<sync_result, cephVars, coreVars, k8sVars>>

\* the caller asks the generator for its next result
DrainNext ==
    /\ cpc = "ready"
    /\ future_results_as_completed("ready", "ready")

\* the caller leaves the iteration early (break, or the timeout expired)
DrainAbandon ==
    /\ cpc = "ready"
    /\ gen = "active"
    /\ genPending # {}
    /\ GenDiscard
    /\ UNCHANGED <<read_executor, read_futures, read_semaphore, fstate,
                   work_queue, nsub, cpc, ci, completed, ndone, nfail, yields>>
    /\ UNCHANGED <<sync_result, cephVars, coreVars, k8sVars>>

\* close that shuts the pool down before cancelling and draining
close_shutdown_first ==
    /\ cpc = "ready"
    /\ read_executor # "none"
    /\ cpc' = "close_shutdown"
    /\ ci' = 0
    /\ GenDiscard
    /\ UNCHANGED <<read_executor, read_futures, read_semaphore, fstate,
                   work_queue, nsub, completed, ndone, nfail, yields>>
    /\ UNCHANGED <<sync_result, cephVars, coreVars, k8sVars>>

\* IOBase.close, lines 67-68: with an executor, outstanding futures are
\* cancelled and drained first; without outstanding futures the pool is shut
\* down directly.  (Without an executor close does nothing.)
close ==
    /\ cpc = "ready"
    /\ read_executor # "none"
    /\ IF Len(read_futures) > 0
       THEN /\ cpc' = "close_cancel"
            /\ ci' = 1
       ELSE /\ cpc' = "close_shutdown"
            /\ ci' = 0
    /\ GenDiscard
    /\ UNCHANGED <<read_executor, read_futures, read_semaphore, fstate,
                   work_queue, nsub, completed, ndone, nfail, yields>>
    /\ UNCHANGED <<sync_result, cephVars, coreVars, k8sVars>>

\* a cancel loop that cancels nothing
CloseCancelNothing ==
    /\ cpc = "close_cancel"
    /\ ci <= Len(read_futures)
    /\ ci' = ci + 1
    /\ UNCHANGED <<read_executor, read_futures, read_semaphore, fstate,
                   work_queue, nsub, cpc, genVars, completed, ndone, nfail,
                   yields>>
    /\ UNCHANGED <<sync_result, cephVars, coreVars, k8sVars>>

\* IOBase.close, lines 71-72: future.cancel() succeeds only for a future no
\* worker has started to run.
CloseCancel ==
    /\ cpc = "close_cancel"
    /\ ci <= Len(read_futures)
    /\ fstate' = IF fstate[read_futures[ci]] = "pending"
                 THEN [fstate EXCEPT ![read_futures[ci]] = "cancelled"]
                 ELSE fstate
    /\ ci' = ci + 1
    /\ UNCHANGED <<read_executor, read_futures, read_semaphore, work_queue,
                   nsub, cpc, genVars, completed, ndone, nfail, yields>>
    /\ UNCHANGED <<sync_result, cephVars, coreVars, k8sVars>>

\* close that cancels and does not retrieve the results
CloseWithoutDrain ==
    /\ cpc = "close_cancel"
    /\ ci > Len(read_futures)
    /\ cpc' = "close_shutdown"
    /\ ci' = 0
    /\ UNCHANGED <<read_executor, read_futures, read_semaphore, fstate,
                   work_queue, nsub, genVars, completed, ndone, nfail, yields>>
    /\ UNCHANGED <<sync_result, cephVars, coreVars, k8sVars>>

\* IOBase.close, line 75: for result in self.read_get_completed()
CloseDrainStart ==
    /\ cpc = "close_cancel"
    /\ ci > Len(read_futures)
    /\ read_get_completed
    /\ cpc' = "close_drain"
    /\ ci' = 0
    /\ UNCHANGED <<read_executor, read_futures, read_semaphore, fstate,
                   work_queue, nsub, completed, ndone, nfail, yields>>
    /\ UNCHANGED <<sync_result, cephVars, coreVars, k8sVars>>

\* a drain loop that raises the exception it retrieves
CloseDrainReraise ==
    /\ cpc = "close_drain"
    /\ LET c == FirstIn(completed, genPending) IN
         future_results_as_completed(
             "close_shutdown",
             IF c[1] # 0 /\ Outcome(c[1]) # "data" THEN "close_raised"
             ELSE "close_drain")

\* IOBase.close, lines 75-76: the results are retrieved and dropped
CloseDrainNext ==
    /\ cpc = "close_drain"
    /\ future_results_as_completed("close_shutdown", "close_drain")

\* IOBase.close, line 78: self._read_executor.shutdown() waits for the
\* workers, which leave once the work queue is empty.
CloseShutdown ==
    /\ cpc = "close_shutdown"
    /\ work_queue = <<>>
    /\ Running = {}
    /\ read_executor' = "shutdown"
    /\ cpc' = "closed"
    /\ UNCHANGED <<read_futures, read_semaphore, fstate, work_queue, nsub, ci,
                   genVars, completed, ndone, nfail, yields>>
    /\ UNCHANGED <<sync_result, cephVars, coreVars, k8sVars>>

Worker ==
    \/ WorkerTake
    \/ \E f \in Ids : read_with_acquire(f)
    \/ \E f \in Ids, ok \in BOOLEAN : backend_read(f, ok)

NextIO ==
    \/ open_r
    \/ read
    \/ WorkerTake
    \/ \E f \in Ids : read_with_acquire(f)
    \/ \E f \in Ids, ok \in BOOLEAN : backend_read(f, ok)
    \/ DrainStart
    \/ DrainNext
    \/ DrainAbandon
    \/ close
    \/ CloseCancel
    \/ CloseDrainStart
    \/ CloseDrainNext
    \/ CloseShutdown
    \/ read_sync
    \/ \E ok \in BOOLEAN : read_sync_return(ok)

(***************************************************************************)
(* Part II - scripts/ceph.py                                               *)
(***************************************************************************)
\* the three post_error signals whose receivers vote (ceph.py:21,24,27)
Signals == {"snapshot_create_post_error", "backup_post_error",
            "restore_post_error"}

\* name.startswith(RBD_SNAP_NAME_PREFIX): a name 'b-<time>' is modelled by
\* its time (> 0), the name of a snapshot the script did not make by 0
StartsWithPrefix(name) == name > 0

\* now.strftime(RBD_SNAP_NAME_PREFIX + '%Y-%m-%dT%H:%M:%SZ'): one name per
\* second
SnapshotName(t) == t

\* the sequence s without the entries equal to x
Without(s, x) == SelectSeq(s, LAMBDA y : y # x)

RECURSIVE reduce_and(_)
reduce_and(votes) ==
    IF Len(votes) = 1 THEN votes[1]
    ELSE reduce_and(SubSeq(votes, 1, Len(votes) - 1)) /\ votes[Len(votes)]

RECURSIVE reduce_or(_)
\* reduce(or_, votes) of a non-empty sequence of booleans
reduce_or(votes) ==
    IF Len(votes) = 1 THEN votes[1]
    ELSE reduce_or(SubSeq(votes, 1, Len(votes) - 1)) \/ votes[Len(votes)]

\* raise_exception = reduce(or_, map(lambda r: bool(r[1]), signal.send(...)))
\* followed by "if raise_exception: raise".  reduce() of an empty sequence
\* raises TypeError.
Decision(votes) ==
    IF Len(votes) = 0 THEN "TypeError"
    ELSE IF reduce_or(votes) THEN "reraise"
    ELSE "suppress"

\* signal.send(...): every connected receiver is called and returns its vote
Send(sig) == [1..observers[sig] -> BOOLEAN]

\* the blocks of the image and what a block holds
Blocks == 1..NBlocks
Data == {0, 1}

envVars == <<snaps, versions, now, observers, image, snapdata>>
localVars == <<kind, todel, last_snapshot, base_version_uid, snapshot, hints>>

\* the function m without the argument x
Drop(m, x) == [y \in DOMAIN m \ {x} |-> m[y]]
handlerVars == <<lastSig, lastVotes, lastCaught, lastDecision>>

CephInit ==
    /\ pc = "idle"
    /\ op = "none"
    /\ kind = "none"
    /\ snaps \in {<<>>, <<0>>}
    /\ versions = <<>>
    /\ now = 1
    /\ ncalls = 0
    /\ observers \in [Signals -> 0..MaxObservers]
    /\ log = <<>>
    /\ exc = "none"
    /\ outcome = "none"
    /\ result = 0
    /\ todel = <<>>
    /\ last_snapshot = 0
    /\ base_version_uid = 0
    /\ snapshot = 0
    /\ snapFailed = FALSE
    /\ lastSig = "none"
    /\ lastVotes = <<>>
    /\ lastCaught = "none"
    /\ lastDecision = "none"
    /\ image = [b \in Blocks |-> 0]
    /\ snapdata = [n \in Range(snaps) |-> image]
    /\ hints = {}

\* a second passes between two calls
Tick ==
    /\ pc \in {"idle", "done"}
    /\ now < MaxTime
    /\ now' = now + 1
    /\ UNCHANGED <<pc, op, ncalls, log, exc, outcome, result, snapFailed,
                   snaps, versions, observers, image, snapdata>>
    /\ UNCHANGED <<localVars, handlerVars, ioVars, coreVars, k8sVars>>

\* a new call starts with fresh locals
Enter(f, first) ==
    /\ pc \in {"idle", "done"}
    /\ ncalls < MaxCalls
    /\ ncalls' = ncalls + 1
    /\ op' = f
    /\ log' = <<first>>
    /\ exc' = "none"
    /\ outcome' = "none"
    /\ result' = 0
    /\ kind' = "none"
    /\ todel' = <<>>
    /\ last_snapshot' = 0
    /\ base_version_uid' = 0
    /\ snapshot' = 0
    /\ hints' = {}
    /\ snapFailed' = FALSE
    /\ lastSig' = "none"
    /\ lastVotes' = <<>>
    /\ lastCaught' = "none"
    /\ lastDecision' = "none"
    /\ UNCHANGED <<envVars, ioVars, coreVars, k8sVars>>

\* an except clause of ceph.py: the post_error signal is sent, the votes are
\* reduced, and the exception is re-raised, swallowed, or replaced by the
\* TypeError of reduce()
Handler(sig, votes) ==
    /\ log' = Append(log, sig)
    /\ lastSig' = sig
    /\ lastVotes' = votes
    /\ lastCaught' = exc
    /\ lastDecision' = Decision(votes)
    /\ exc' = CASE Decision(votes) = "TypeError" -> "TypeError"
                [] Decision(votes) = "reraise" -> exc
                [] OTHER -> "none"

\* backup, lines 138-144: signal_backup_pre is sent, result = None
backup ==
    /\ Enter("backup", "backup_pre")
    /\ pc' = "b_snap_ls"

\* backup, lines 146-151 and 161-166: rbd snap ls, the prefixed snapshots
b_snap_ls(ok) ==
    /\ pc = "b_snap_ls"
    /\ IF ~ok
       THEN /\ exc' = "error"
            /\ pc' = "b_except"
            /\ UNCHANGED <<kind, todel, last_snapshot>>
       ELSE LET benjis_snapshots == SelectSeq(snaps, StartsWithPrefix) IN
            /\ exc' = exc
            /\ IF Len(benjis_snapshots) = 0
               THEN /\ kind' = "initial"
                    /\ pc' = "sc_pre"
                    /\ UNCHANGED <<todel, last_snapshot>>
               ELSE /\ kind' = kind
                    /\ todel' = SubSeq(benjis_snapshots, 1, Len(benjis_snapshots) - 1)
                    /\ last_snapshot' = benjis_snapshots[Len(benjis_snapshots)]
                    /\ pc' = IF Len(benjis_snapshots) > 1 THEN "b_rm_old"
                             ELSE "b_benji_ls"
    /\ UNCHANGED <<op, ncalls, log, outcome, result, snapFailed,
                   base_version_uid, snapshot, hints>>
    /\ UNCHANGED <<envVars, handlerVars, ioVars, coreVars, k8sVars>>

\* backup, lines 161-163: rbd snap rm of one older snapshot
b_rm_old(ok) ==
    /\ pc = "b_rm_old"
    /\ IF ~ok
       THEN /\ exc' = "error"
            /\ pc' = "b_except"
            /\ UNCHANGED <<snaps, snapdata, todel>>
       ELSE /\ exc' = exc
            /\ snaps' = Without(snaps, Head(todel))
            /\ snapdata' = Drop(snapdata, Head(todel))
            /\ todel' = Tail(todel)
            /\ pc' = IF Len(todel) > 1 THEN "b_rm_old" ELSE "b_benji_ls"
    /\ UNCHANGED <<op, ncalls, log, outcome, result, snapFailed, kind,
                   last_snapshot, base_version_uid, snapshot, hints>>
    /\ UNCHANGED <<versions, now, observers, image, handlerVars, ioVars, coreVars, k8sVars>>

\* benji ls that filters on the snapshot only
benji_ls_any_status(snap) ==
    {u \in DOMAIN versions : versions[u].snap = snap}

\* uids of the versions benji ls reports for
\* 'snapshot == "{last_snapshot}" and status == "valid"'
benji_ls(snap) ==
    {u \in DOMAIN versions :
        versions[u].snap = snap /\ versions[u].status = "valid"}

\* the smallest element of a non-empty set of numbers
Min(S) == CHOOSE x \in S : \A y \in S : x <= y

\* backup, lines 168-174 and 183-184: benji ls
b_benji_ls(ok) ==
    /\ pc = "b_benji_ls"
    /\ IF ~ok
       THEN /\ exc' = "error"
            /\ pc' = "b_except"
            /\ UNCHANGED <<kind, base_version_uid>>
       ELSE /\ exc' = exc
            /\ IF benji_ls(last_snapshot) # {}
               THEN /\ base_version_uid' = Min(benji_ls(last_snapshot))
                    /\ kind' = "differential"
                    /\ pc' = "sc_pre"
               ELSE /\ pc' = "b_rm_last"
                    /\ UNCHANGED <<kind, base_version_uid>>
    /\ UNCHANGED <<op, ncalls, log, outcome, result, snapFailed, todel,
                   last_snapshot, snapshot, hints>>
    /\ UNCHANGED <<envVars, handlerVars, ioVars, coreVars, k8sVars>>

\* backup, line 185: rbd snap rm of the snapshot Benji does not know
b_rm_last(ok) ==
    /\ pc = "b_rm_last"
    /\ IF ~ok
       THEN /\ exc' = "error"
            /\ pc' = "b_except"
            /\ UNCHANGED <<snaps, snapdata, kind>>
       ELSE /\ exc' = exc
            /\ snaps' = Without(snaps, last_snapshot)
            /\ snapdata' = Drop(snapdata, last_snapshot)
            /\ kind' = "initial"
            /\ pc' = "sc_pre"
    /\ UNCHANGED <<op, ncalls, log, outcome, result, snapFailed, todel,
                   last_snapshot, base_version_uid, snapshot, hints>>
    /\ UNCHANGED <<versions, now, observers, image, handlerVars, ioVars, coreVars, k8sVars>>

\* backup_initial 71-74 / backup_differential 106-109 and snapshot_create
\* 31-36: the snapshot is named after the time, signal_snapshot_create_pre
sc_pre ==
    /\ pc = "sc_pre"
    /\ snapshot' = SnapshotName(now)
    /\ log' = Append(log, "snapshot_create_pre")
    /\ pc' = "sc_run"
    /\ UNCHANGED <<op, ncalls, exc, outcome, result, snapFailed, kind, todel,
                   last_snapshot, base_version_uid, hints>>
    /\ UNCHANGED <<envVars, handlerVars, ioVars, coreVars, k8sVars>>

\* snapshot_create, lines 37-38: rbd snap create.  It fails when the name is
\* taken; when it fails otherwise (RBD_SNAP_CREATE_TIMEOUT, ...) the snapshot
\* may or may not have been made.
sc_run(ok, made) ==
    /\ pc = "sc_run"
    /\ IF ok /\ snapshot \notin Range(snaps)
       THEN /\ snaps' = Append(snaps, snapshot)
            /\ snapdata' = [n \in DOMAIN snapdata \cup {snapshot} |->
                               IF n = snapshot THEN image ELSE snapdata[n]]
            /\ pc' = "sc_else"
            /\ UNCHANGED <<exc, snapFailed>>
       ELSE /\ snaps' = IF made /\ snapshot \notin Range(snaps)
                        THEN Append(snaps, snapshot) ELSE snaps
            /\ snapdata' = IF made /\ snapshot \notin Range(snaps)
                           THEN [n \in DOMAIN snapdata \cup {snapshot} |->
                                   IF n = snapshot THEN image ELSE snapdata[n]]
                           ELSE snapdata
            /\ exc' = "error"
            /\ snapFailed' = TRUE
            /\ pc' = "sc_except"
    /\ UNCHANGED <<op, ncalls, log, outcome, result>>
    /\ UNCHANGED <<versions, now, observers, image, localVars, handlerVars,
                   ioVars, coreVars, k8sVars>>

\* snapshot_create, lines 39-52: the except clause.  A re-raised exception
\* (or the TypeError) reaches the except clause of backup; a swallowed one
\* lets snapshot_create return to backup_initial / backup_differential.
sc_except(votes) ==
    /\ pc = "sc_except"
    /\ Handler("snapshot_create_post_error", votes)
    /\ pc' = IF Decision(votes) = "suppress" THEN "diff" ELSE "b_except"
    /\ UNCHANGED <<op, ncalls, outcome, result, snapFailed>>
    /\ UNCHANGED <<envVars, localVars, ioVars, coreVars, k8sVars>>

\* snapshot_create, lines 53-59: signal_snapshot_create_post_success
sc_else ==
    /\ pc = "sc_else"
    /\ log' = Append(log, "snapshot_create_post_success")
    /\ pc' = "diff"
    /\ UNCHANGED <<op, ncalls, exc, outcome, result, snapFailed>>
    /\ UNCHANGED <<envVars, localVars, handlerVars, ioVars, coreVars, k8sVars>>

\* rbd diff --whole-object [--from-snap from] pool/image@to: the blocks that
\* hold data in snapshot to (from = 0: no --from-snap), or the blocks whose
\* data differs between the snapshots from and to
rbd_diff(from, to) ==
    IF from = 0 THEN {b \in Blocks : snapdata[to][b] # 0}
    ELSE {b \in Blocks : snapdata[from][b] # snapdata[to][b]}

\* backup_initial, line 75 / backup_differential, lines 110-111: rbd diff of
\* the new snapshot (from last_snapshot); it fails without the snapshots
diff(ok) ==
    /\ pc = "diff"
    /\ IF ok /\ snapshot \in Range(snaps)
          /\ (kind = "differential" => last_snapshot \in Range(snaps))
       THEN /\ exc' = exc
            /\ hints' = IF kind = "differential"
                        THEN rbd_diff(last_snapshot, snapshot)
                        ELSE rbd_diff(0, snapshot)
            /\ pc' = IF kind = "differential" THEN "d_rm_last"
                     ELSE "benji_backup"
       ELSE /\ exc' = "error"
            /\ pc' = "b_except"
            /\ UNCHANGED hints
    /\ UNCHANGED <<op, ncalls, log, outcome, result, snapFailed, kind, todel,
                   last_snapshot, base_version_uid, snapshot>>
    /\ UNCHANGED <<envVars, handlerVars, ioVars, coreVars, k8sVars>>

\* a differential backup that leaves the previous snapshot in place
d_rm_last_keep(ok) ==
    /\ pc = "d_rm_last"
    /\ IF ok /\ last_snapshot \in Range(snaps)
       THEN /\ exc' = exc
            /\ pc' = "benji_backup"
       ELSE /\ exc' = "error"
            /\ pc' = "b_except"
    /\ UNCHANGED <<snaps, snapdata>>
    /\ UNCHANGED <<op, ncalls, log, outcome, result, snapFailed>>
    /\ UNCHANGED <<versions, now, observers, image, localVars, handlerVars,
                   ioVars, coreVars, k8sVars>>

\* backup_differential, line 112: rbd snap rm of last_snapshot
d_rm_last(ok) ==
    /\ pc = "d_rm_last"
    /\ IF ok /\ last_snapshot \in Range(snaps)
       THEN /\ exc' = exc
            /\ snaps' = Without(snaps, last_snapshot)
            /\ snapdata' = Drop(snapdata, last_snapshot)
            /\ pc' = "benji_backup"
       ELSE /\ exc' = "error"
            /\ pc' = "b_except"
            /\ UNCHANGED <<snaps, snapdata>>
    /\ UNCHANGED <<op, ncalls, log, outcome, result, snapFailed>>
    /\ UNCHANGED <<versions, now, observers, image, localVars, handlerVars,
                   ioVars, coreVars, k8sVars>>

\* benji backup --snapshot snap --rbd-hints hints [--base-version base]
\* pool/image@snap: the block map of the new version.  The blocks named by
\* the hints are read from the snapshot; the others are sparse (base = 0:
\* no --base-version) or taken over from the base version.
BlockMap(snap, h, base) ==
    [b \in Blocks |->
        IF b \in h THEN snapdata[snap][b]
        ELSE IF base = 0 THEN 0
        ELSE versions[base].blocks[b]]

\* backup_initial, lines 77-91 / backup_differential, lines 114-128: benji
\* backup of the new snapshot.  A failed run may leave an invalid version.
benji_backup(ok, left) ==
    /\ pc = "benji_backup"
    /\ IF ok /\ snapshot \in Range(snaps)
       THEN /\ versions' = Append(versions,
                                  [snap |-> snapshot, status |-> "valid",
                                   blocks |-> BlockMap(snapshot, hints,
                                                       base_version_uid)])
            /\ result' = Len(versions) + 1
            /\ exc' = exc
            /\ pc' = "b_return"
       ELSE /\ versions' = IF left
                           THEN Append(versions,
                                       [snap |-> snapshot, status |-> "invalid",
                                        blocks |-> [b \in Blocks |-> 0]])
                           ELSE versions
            /\ result' = result
            /\ exc' = "error"
            /\ pc' = "b_except"
    /\ UNCHANGED <<op, ncalls, log, outcome, snapFailed>>
    /\ UNCHANGED <<snaps, now, observers, image, snapdata, localVars,
                   handlerVars, ioVars, coreVars, k8sVars>>

\* backup, line 192: "return result" inside the try block leaves the
\* function; the else clause of the try statement (lines 208-215) only runs
\* when the try block runs off its end, so it is not run
b_return ==
    /\ pc = "b_return"
    /\ outcome' = "returned"
    /\ pc' = "done"
    /\ UNCHANGED <<op, ncalls, log, exc, result, snapFailed>>
    /\ UNCHANGED <<envVars, localVars, handlerVars, ioVars, coreVars, k8sVars>>

\* backup, lines 193-207: the except clause
b_except(votes) ==
    /\ pc = "b_except"
    /\ Handler("backup_post_error", votes)
    /\ outcome' = IF Decision(votes) = "suppress" THEN "returned" ELSE "raised"
    /\ pc' = "done"
    /\ UNCHANGED <<op, ncalls, result, snapFailed>>
    /\ UNCHANGED <<envVars, localVars, ioVars, coreVars, k8sVars>>

\* restore, lines 219-220: the pre signal that is sent is
\* signal_snapshot_create_pre
restore ==
    /\ Enter("restore", "snapshot_create_pre")
    /\ pc' = "r_run"

\* restore, lines 221-225: benji restore
r_run(ok) ==
    /\ pc = "r_run"
    /\ IF ok
       THEN /\ exc' = exc
            /\ pc' = "r_else"
       ELSE /\ exc' = "error"
            /\ pc' = "r_except"
    /\ UNCHANGED <<op, ncalls, log, outcome, result, snapFailed>>
    /\ UNCHANGED <<envVars, localVars, handlerVars, ioVars, coreVars, k8sVars>>

\* restore, lines 226-239: the except clause
r_except(votes) ==
    /\ pc = "r_except"
    /\ Handler("restore_post_error", votes)
    /\ outcome' = IF Decision(votes) = "suppress" THEN "returned" ELSE "raised"
    /\ pc' = "done"
    /\ UNCHANGED <<op, ncalls, result, snapFailed>>
    /\ UNCHANGED <<envVars, localVars, ioVars, coreVars, k8sVars>>

\* restore, lines 240-241: signal_restore_post_success
r_else ==
    /\ pc = "r_else"
    /\ log' = Append(log, "restore_post_success")
    /\ outcome' = "returned"
    /\ pc' = "done"
    /\ UNCHANGED <<op, ncalls, exc, result, snapFailed>>
    /\ UNCHANGED <<envVars, localVars, handlerVars, ioVars, coreVars, k8sVars>>

NextCeph ==
    \/ Tick
    \/ backup
    \/ \E ok \in BOOLEAN : b_snap_ls(ok)
    \/ \E ok \in BOOLEAN : b_rm_old(ok)
    \/ \E ok \in BOOLEAN : b_benji_ls(ok)
    \/ \E ok \in BOOLEAN : b_rm_last(ok)
    \/ sc_pre
    \/ \E ok \in BOOLEAN, made \in BOOLEAN : sc_run(ok, made)
    \/ \E votes \in Send("snapshot_create_post_error") : sc_except(votes)
    \/ sc_else
    \/ \E ok \in BOOLEAN : diff(ok)
    \/ \E ok \in BOOLEAN : d_rm_last(ok)
    \/ \E ok \in BOOLEAN, left \in BOOLEAN : benji_backup(ok, left)
    \/ b_return
    \/ \E votes \in Send("backup_post_error") : b_except(votes)
    \/ restore
    \/ \E ok \in BOOLEAN : r_run(ok)
    \/ \E votes \in Send("restore_post_error") : r_except(votes)
    \/ r_else

\* a client of the volume writes block b of the image between two calls
Write(b) ==
    /\ pc \in {"idle", "done"}
    /\ image' = [image EXCEPT ![b] = 1 - @]
    /\ UNCHANGED <<pc, op, ncalls, log, exc, outcome, result, snapFailed,
                   snaps, versions, now, observers, snapdata>>
    /\ UNCHANGED <<localVars, handlerVars, ioVars, coreVars, k8sVars>>

(***************************************************************************)
(* Part III - Deduplication & Version Assembler, storage backend reads     *)
(***************************************************************************)
\* checksums of block contents; 0 is the all-zero (sparse) block
Sums == 0..MaxSum

\* the null checksum of a sparse block, and a block map entry not recorded
Null == 0
Unset == 0 - 1

\* H(raw bytes): a block's content is represented by its checksum
\* encode(raw bytes): the payload stored for the content with checksum c
Payload(c) == c

CoreInit ==
    /\ source = [b \in Blocks |-> 0]
    /\ vstatus = "none"
    /\ vmap = [b \in Blocks |-> Unset]
    /\ cursor = 1
    /\ bstate = [b \in Blocks |-> "todo"]
    /\ known = {}
    /\ claimed = {}
    /\ objects = [c \in {} |-> 0]
    /\ puts = [c \in Sums |-> 0]
    /\ commits = [c \in Sums |-> 0]
    /\ rmap = [b \in Blocks |-> Null]
    /\ rstatus = "idle"
    /\ rerror = "none"
    /\ rcursor = 1
    /\ rstate = [b \in Blocks |-> "todo"]
    /\ attempts = [b \in Blocks |-> 0]
    /\ written = {}

\* a backup run is going on
Assembling == vstatus = "incomplete"

\* a block's read, transform or write failed unrecoverably in this run
Aborted == \E b \in Blocks : bstate[b] = "failed"

\* a backup of a volume starts: the Version is created incomplete.  Each run
\* owns its state: that of the restore run before it is gone.
backup_start(data) ==
    /\ vstatus # "incomplete"
    /\ claimed = {}
    /\ rstatus # "running"
    /\ rmap' = [b \in Blocks |-> Null]
    /\ rstatus' = "idle"
    /\ rerror' = "none"
    /\ rcursor' = 1
    /\ rstate' = [b \in Blocks |-> "todo"]
    /\ attempts' = [b \in Blocks |-> 0]
    /\ written' = {}
    /\ source' = data
    /\ vstatus' = "incomplete"
    /\ vmap' = [b \in Blocks |-> Unset]
    /\ cursor' = 1
    /\ bstate' = [b \in Blocks |-> "todo"]
    /\ puts' = [c \in Sums |-> 0]
    /\ UNCHANGED <<known, claimed, objects, commits>>
    /\ UNCHANGED <<ioVars, cephVars, k8sVars>>

\* the control flow takes the next block without looking at the claims
scan_block_unclaimed(ok) ==
    /\ Assembling /\ ~Aborted
    /\ cursor <= NBlocks
    /\ LET b == cursor
           c == source[b]
       IN
       /\ cursor' = cursor + 1
       /\ IF ~ok
          THEN /\ bstate' = [bstate EXCEPT ![b] = "failed"]
               /\ UNCHANGED <<vmap, claimed, puts>>
          ELSE IF c = 0
          THEN /\ bstate' = [bstate EXCEPT ![b] = "recorded"]
               /\ vmap' = [vmap EXCEPT ![b] = Null]
               /\ UNCHANGED <<claimed, puts>>
          ELSE IF c \in known
          THEN /\ bstate' = [bstate EXCEPT ![b] = "recorded"]
               /\ vmap' = [vmap EXCEPT ![b] = c]
               /\ UNCHANGED <<claimed, puts>>
          ELSE /\ bstate' = [bstate EXCEPT ![b] = "storing"]
               /\ claimed' = claimed \cup {c}
               /\ puts' = [puts EXCEPT ![c] = @ + 1]
               /\ UNCHANGED vmap
    /\ UNCHANGED <<source, vstatus, known, objects, commits>>
    /\ UNCHANGED <<restoreVars, ioVars, cephVars, k8sVars>>

\* Assembler, steps 2-4 for the next block index: the block is read and its
\* checksum computed (ok: the read succeeds).  A sparse block is recorded with
\* a null checksum; a known checksum is reused; a checksum another block has
\* claimed is waited for; a new checksum is claimed and its store submitted.
scan_block(ok) ==
    /\ Assembling /\ ~Aborted
    /\ cursor <= NBlocks
    /\ LET b == cursor
           c == source[b]
       IN
       /\ cursor' = cursor + 1
       /\ IF ~ok
          THEN /\ bstate' = [bstate EXCEPT ![b] = "failed"]
               /\ UNCHANGED <<vmap, claimed, puts>>
          ELSE IF c = 0
          THEN /\ bstate' = [bstate EXCEPT ![b] = "recorded"]
               /\ vmap' = [vmap EXCEPT ![b] = Null]
               /\ UNCHANGED <<claimed, puts>>
          ELSE IF c \in known
          THEN /\ bstate' = [bstate EXCEPT ![b] = "recorded"]
               /\ vmap' = [vmap EXCEPT ![b] = c]
               /\ UNCHANGED <<claimed, puts>>
          ELSE IF c \in claimed
          THEN /\ bstate' = [bstate EXCEPT ![b] = "waiting"]
               /\ UNCHANGED <<vmap, claimed, puts>>
          ELSE /\ bstate' = [bstate EXCEPT ![b] = "storing"]
               /\ claimed' = claimed \cup {c}
               /\ puts' = [puts EXCEPT ![c] = @ + 1]
               /\ UNCHANGED vmap
    /\ UNCHANGED <<source, vstatus, known, objects, commits>>
    /\ UNCHANGED <<restoreVars, ioVars, cephVars, k8sVars>>

\* Assembler, step 4: the transform and the put of a claimed checksum end
\* (ok: the object is durably written).  The index update and the put are
\* one unit: the checksum becomes known and the block is recorded.
store_done(b, ok) ==
    /\ Assembling
    /\ bstate[b] = "storing"
    /\ LET c == source[b] IN
       /\ claimed' = claimed \ {c}
       /\ IF ok
          THEN /\ objects' = [x \in DOMAIN objects \cup {c} |->
                                IF x = c THEN Payload(c) ELSE objects[x]]
               /\ commits' = [commits EXCEPT ![c] = @ + 1]
               /\ known' = known \cup {c}
               /\ bstate' = [bstate EXCEPT ![b] = "recorded"]
               /\ vmap' = [vmap EXCEPT ![b] = c]
          ELSE /\ bstate' = [bstate EXCEPT ![b] = "failed"]
               /\ UNCHANGED <<objects, commits, known, vmap>>
    /\ UNCHANGED <<source, vstatus, cursor, puts>>
    /\ UNCHANGED <<restoreVars, ioVars, cephVars, k8sVars>>

\* the block that waited for the first writer reuses the stored object
reuse_after_wait(b) ==
    /\ Assembling /\ ~Aborted
    /\ bstate[b] = "waiting"
    /\ source[b] \in known
    /\ bstate' = [bstate EXCEPT ![b] = "recorded"]
    /\ vmap' = [vmap EXCEPT ![b] = source[b]]
    /\ UNCHANGED <<source, vstatus, cursor, known, claimed, objects, puts,
                   commits>>
    /\ UNCHANGED <<restoreVars, ioVars, cephVars, k8sVars>>

\* a Version that is marked valid as soon as the scan is over
backup_finish_early ==
    /\ Assembling /\ ~Aborted
    /\ cursor > NBlocks
    /\ vstatus' = "valid"
    /\ UNCHANGED <<source, vmap, cursor, bstate, known, claimed, objects,
                   puts, commits>>
    /\ UNCHANGED <<restoreVars, ioVars, cephVars, k8sVars>>

\* every block is recorded: the Version is promoted to valid
backup_finish ==
    /\ Assembling
    /\ \A b \in Blocks : bstate[b] = "recorded"
    /\ vstatus' = "valid"
    /\ UNCHANGED <<source, vmap, cursor, bstate, known, claimed, objects,
                   puts, commits>>
    /\ UNCHANGED <<restoreVars, ioVars, cephVars, k8sVars>>

\* failure semantics: a block failed; the stores still running have ended
\* and the Version is marked invalid
backup_abort ==
    /\ Assembling /\ Aborted
    /\ \A b \in Blocks : bstate[b] # "storing"
    /\ vstatus' = "invalid"
    /\ UNCHANGED <<source, vmap, cursor, bstate, known, claimed, objects,
                   puts, commits>>
    /\ UNCHANGED <<restoreVars, ioVars, cephVars, k8sVars>>

\* a restore of the Version assembled last starts
restore_start ==
    /\ vstatus = "valid"
    /\ rstatus # "running"
    /\ rmap' = vmap
    /\ rstatus' = "running"
    /\ rerror' = "none"
    /\ rcursor' = 1
    /\ rstate' = [b \in Blocks |-> "todo"]
    /\ attempts' = [b \in Blocks |-> 0]
    /\ written' = {}
    /\ UNCHANGED <<backupVars, ioVars, cephVars, k8sVars>>

\* restore, next block index: a null checksum writes zeroed bytes with no
\* read; otherwise the fetch of the stored object is handed to the engine
restore_block ==
    /\ rstatus = "running"
    /\ rcursor <= NBlocks
    /\ rcursor' = rcursor + 1
    /\ IF rmap[rcursor] = Null
       THEN /\ rstate' = [rstate EXCEPT ![rcursor] = "written"]
            /\ written' = written \cup {rcursor}
       ELSE /\ rstate' = [rstate EXCEPT ![rcursor] = "reading"]
            /\ UNCHANGED written
    /\ UNCHANGED <<rmap, rstatus, rerror, attempts>>
    /\ UNCHANGED <<backupVars, ioVars, cephVars, k8sVars>>

\* a retry loop that allows one attempt too many
backend_get_once_more(b, ok) ==
    /\ rstate[b] = "reading"
    /\ attempts[b] <= readObjectAttempts
    /\ attempts' = [attempts EXCEPT ![b] = @ + 1]
    /\ rstate' = [rstate EXCEPT ![b] =
                    IF ok THEN "got"
                    ELSE IF attempts[b] + 1 > readObjectAttempts
                    THEN "ReadFailed" ELSE "reading"]
    /\ UNCHANGED <<rmap, rstatus, rerror, rcursor, written>>
    /\ UNCHANGED <<backupVars, ioVars, cephVars, k8sVars>>

\* get(object_id): one attempt of the retry loop (ok: it succeeds); the
\* failure of the last allowed attempt surfaces ReadFailed
backend_get(b, ok) ==
    /\ rstate[b] = "reading"
    /\ attempts[b] < readObjectAttempts
    /\ attempts' = [attempts EXCEPT ![b] = @ + 1]
    /\ rstate' = [rstate EXCEPT ![b] =
                    IF ok THEN "got"
                    ELSE IF attempts[b] + 1 = readObjectAttempts
                    THEN "ReadFailed" ELSE "reading"]
    /\ UNCHANGED <<rmap, rstatus, rerror, rcursor, written>>
    /\ UNCHANGED <<backupVars, ioVars, cephVars, k8sVars>>

\* restore: a fetched object is decoded and written to the destination
restore_write(b) ==
    /\ rstatus = "running"
    /\ rstate[b] = "got"
    /\ objects[rmap[b]] = Payload(rmap[b])
    /\ rstate' = [rstate EXCEPT ![b] = "written"]
    /\ written' = written \cup {b}
    /\ UNCHANGED <<rmap, rstatus, rerror, rcursor, attempts>>
    /\ UNCHANGED <<backupVars, ioVars, cephVars, k8sVars>>

\* restore: the control flow retrieves a ReadFailed; the restore aborts with
\* it and the results of the other fetches are dropped
restore_abort(b) ==
    /\ rstatus = "running"
    /\ rstate[b] = "ReadFailed"
    /\ rstatus' = "failed"
    /\ rerror' = "ReadFailed"
    /\ rstate' = [x \in Blocks |->
                    IF rstate[x] \in {"reading", "got"} THEN "dropped"
                    ELSE rstate[x]]
    /\ UNCHANGED <<rmap, rcursor, attempts, written>>
    /\ UNCHANGED <<backupVars, ioVars, cephVars, k8sVars>>

\* restore: every block is written
restore_finish ==
    /\ rstatus = "running"
    /\ \A b \in Blocks : rstate[b] = "written"
    /\ rstatus' = "done"
    /\ UNCHANGED <<rmap, rerror, rcursor, rstate, attempts, written>>
    /\ UNCHANGED <<backupVars, ioVars, cephVars, k8sVars>>

NextCore ==
    \/ \E data \in [Blocks -> Sums] : backup_start(data)
    \/ \E ok \in BOOLEAN : scan_block(ok)
    \/ \E b \in Blocks, ok \in BOOLEAN : store_done(b, ok)
    \/ \E b \in Blocks : reuse_after_wait(b)
    \/ backup_finish
    \/ backup_abort
    \/ restore_start
    \/ restore_block
    \/ \E b \in Blocks, ok \in BOOLEAN : backend_get(b, ok)
    \/ \E b \in Blocks : restore_write(b)
    \/ \E b \in Blocks : restore_abort(b)
    \/ restore_finish

(***************************************************************************)
(* Part IV - src/benji/k8s_operator/resources.py                           *)
(***************************************************************************)
\* keys and values of benji.k8s_operator.constants
JOB_STATUS_START_TIME == "startTime"
JOB_STATUS_COMPLETION_TIME == "completionTime"
JOB_STATUS_FAILED == "failed"
RESOURCE_STATUS_LIST_OBJECT_REFERENCE == "objectReference"
RESOURCE_STATUS_DEPENDANT_JOBS == "dependantJobs"
RESOURCE_STATUS_DEPENDANT_JOBS_STATUS == "status"
RESOURCE_JOB_STATUS_SUCCEEDED == "Succeeded"
RESOURCE_JOB_STATUS_FAILED == "Failed"
RESOURCE_JOB_STATUS_RUNNING == "Running"
RESOURCE_JOB_STATUS_PENDING == "Pending"
LABEL_PARENT_NAME == "parent-name"
LABEL_PARENT_NAMESPACE == "parent-namespace"

\* Python's None where a timestamp (1..MaxStamp) is expected
None == 0

\* the uids of the jobs
Jobs == 1..NJobs

\* a dict is a function whose domain is the set of its keys
EmptyDict == [k \in {} |-> 0]

\* d.get(key, default)
Get(d, key, default) == IF key \in DOMAIN d THEN d[key] ELSE default

\* the status dicts of a Kubernetes Job: startTime and completionTime are
\* timestamps, failed is a count of pods; every key may be missing
JobStatuses ==
    {js \in UNION {[K -> 0..(MaxStamp + MaxFailedPods)] :
                     K \in SUBSET {JOB_STATUS_START_TIME,
                                   JOB_STATUS_COMPLETION_TIME,
                                   JOB_STATUS_FAILED}} :
        /\ JOB_STATUS_START_TIME \in DOMAIN js
             => js[JOB_STATUS_START_TIME] \in 1..MaxStamp
        /\ JOB_STATUS_COMPLETION_TIME \in DOMAIN js
             => js[JOB_STATUS_COMPLETION_TIME] \in 1..MaxStamp
        /\ JOB_STATUS_FAILED \in DOMAIN js
             => js[JOB_STATUS_FAILED] \in 0..MaxFailedPods}

\* a Job object as the handler gets it (body): its keys are those of a
\* Kubernetes object, the status dict is the value of its key 'status'
Job(uid, js) == [metadata |-> [uid |-> uid], status |-> js]

\* create_object_ref(resource_dict, include_gvk=False); name and namespace
\* go with the uid
create_object_ref(resource_dict) == [uid |-> resource_dict["metadata"]["uid"]]

\* {RESOURCE_STATUS_LIST_OBJECT_REFERENCE: create_object_ref(...)} followed
\* by .update(extra_data)
StatusListEntry(resource_dict, extra_data) ==
    [k \in {RESOURCE_STATUS_LIST_OBJECT_REFERENCE} \cup DOMAIN extra_data |->
        IF k \in DOMAIN extra_data THEN extra_data[k]
        ELSE create_object_ref(resource_dict)]

\* update_status_list: the first entry with the resource's uid is replaced
\* in a copy of the list; without such an entry the new one is appended
update_status_list(lst, resource, extra_data) ==
    LET I == {i \in DOMAIN lst :
                lst[i][RESOURCE_STATUS_LIST_OBJECT_REFERENCE]["uid"]
                  = resource["metadata"]["uid"]}
    IN IF I # {}
       THEN [lst EXCEPT ![Min(I)] = StatusListEntry(resource, extra_data)]
       ELSE Append(lst, StatusListEntry(resource, extra_data))

\* delete_from_status_list: the entries with another uid
delete_from_status_list(lst, resource) ==
    SelectSeq(lst, LAMBDA value :
        ~(value[RESOURCE_STATUS_LIST_OBJECT_REFERENCE]["uid"]
            = resource["metadata"]["uid"]))

\* a mapping that reports a job without completion time as failed as soon
\* as it counts failed pods
derive_job_status_failed_first(js) ==
    [start_time |-> Get(js, JOB_STATUS_START_TIME, None),
     completion_time |-> Get(js, JOB_STATUS_COMPLETION_TIME, None),
     status |->
        IF JOB_STATUS_COMPLETION_TIME \in DOMAIN js
        THEN RESOURCE_JOB_STATUS_SUCCEEDED
        ELSE IF JOB_STATUS_FAILED \in DOMAIN js /\ js[JOB_STATUS_FAILED] > 0
        THEN RESOURCE_JOB_STATUS_FAILED
        ELSE IF JOB_STATUS_START_TIME \in DOMAIN js
        THEN RESOURCE_JOB_STATUS_RUNNING
        ELSE RESOURCE_JOB_STATUS_PENDING]

\* derive_job_status: _DependantJobStatus(start_time, completion_time, status)
derive_job_status(js) ==
    [start_time |-> Get(js, JOB_STATUS_START_TIME, None),
     completion_time |-> Get(js, JOB_STATUS_COMPLETION_TIME, None),
     status |->
        IF JOB_STATUS_COMPLETION_TIME \in DOMAIN js
        THEN RESOURCE_JOB_STATUS_SUCCEEDED
        ELSE IF JOB_STATUS_START_TIME \in DOMAIN js
        THEN IF JOB_STATUS_FAILED \in DOMAIN js /\ js[JOB_STATUS_FAILED] > 0
             THEN RESOURCE_JOB_STATUS_FAILED
             ELSE RESOURCE_JOB_STATUS_RUNNING
        ELSE RESOURCE_JOB_STATUS_PENDING]

\* build_dependant_job_status: the times that are not None and the status
build_dependant_job_status(js) ==
    LET derived == derive_job_status(js)
        keys == {RESOURCE_STATUS_DEPENDANT_JOBS_STATUS}
                  \cup (IF derived.start_time # None
                        THEN {JOB_STATUS_START_TIME} ELSE {})
                  \cup (IF derived.completion_time # None
                        THEN {JOB_STATUS_COMPLETION_TIME} ELSE {})
    IN [k \in keys |->
          CASE k = JOB_STATUS_START_TIME -> derived.start_time
            [] k = JOB_STATUS_COMPLETION_TIME -> derived.completion_time
            [] OTHER -> derived.status]

\* build_resource_status_dependant_jobs(status, job, delete): the job itself
\* is what build_dependant_job_status is called with (line 244)
build_resource_status_dependant_jobs(st, job, delete) ==
    LET lst == Get(st, RESOURCE_STATUS_DEPENDANT_JOBS, <<>>) IN
    [k \in {RESOURCE_STATUS_DEPENDANT_JOBS} |->
        IF delete THEN delete_from_status_list(lst, job)
        ELSE update_status_list(lst, job, build_dependant_job_status(job))]

\* service_account_namespace() of benji.helpers.kubernetes
service_account_namespace == "benji"

\* the namespaces job events come from
Namespaces == {service_account_namespace, "other"}

\* the reasons of the events a job handler is called for
Reasons == {"create", "update", "delete"}

\* meta of a job: with or without 'labels', which hold any of the parent
\* labels
Metas ==
    {EmptyDict} \cup
    {[labels |-> L] : L \in SUBSET {LABEL_PARENT_NAME, LABEL_PARENT_NAMESPACE}}

\* the job statuses of the events delivered to the handlers
EventStatuses ==
    {js \in JobStatuses :
        /\ JOB_STATUS_FAILED \notin DOMAIN js
        /\ JOB_STATUS_COMPLETION_TIME \notin DOMAIN js
        /\ Get(js, JOB_STATUS_START_TIME, 1) = 1}

\* no job event was delivered yet; the parent resource exists without status
TrackIdle ==
    /\ custom_object = EmptyDict
    /\ parent_exists = TRUE
    /\ tpc = [j \in Jobs |-> "idle"]
    /\ event = [j \in Jobs |->
                  [reason |-> "none", namespace |-> "none", meta |-> EmptyDict,
                   body |-> Job(j, EmptyDict)]]
    /\ parent = [j \in Jobs |-> EmptyDict]
    /\ parent_patch = [j \in Jobs |-> EmptyDict]
    /\ toutcome = [j \in Jobs |-> "none"]
    /\ job_deletes = [j \in Jobs |-> 0]
    /\ nevents = 0

\* how a handler ends: its position, outcome and delete_namespaced_job calls
TrackEnd(j, out, deletes) ==
    /\ tpc' = [tpc EXCEPT ![j] = "done"]
    /\ toutcome' = [toutcome EXCEPT ![j] = out]
    /\ job_deletes' = [job_deletes EXCEPT ![j] = deletes]

\* track_job_status, lines 249-268: an event of job j arrives.  The events
\* of one job are handled one after the other, and a delete event is the
\* last one of its job.  Line 257 is
\*   (reason != 'delete' and 'labels' not in meta)
\*       or LABEL_PARENT_NAME not in meta['labels']
\* and meta['labels'] raises KeyError when meta has no labels.
track_job_status(j, reason, namespace, meta, js) ==
    /\ tpc[j] \in {"idle", "done"}
    /\ event[j].reason # "delete"
    /\ nevents < MaxEvents
    /\ nevents' = nevents + 1
    /\ event' = [event EXCEPT ![j] =
                   [reason |-> reason, namespace |-> namespace, meta |-> meta,
                    body |-> Job(j, js)]]
    /\ parent' = [parent EXCEPT ![j] = EmptyDict]
    /\ parent_patch' = [parent_patch EXCEPT ![j] = EmptyDict]
    /\ IF namespace # service_account_namespace
       THEN TrackEnd(j, "returned", 0)
       ELSE IF reason # "delete" /\ "labels" \notin DOMAIN meta
       THEN TrackEnd(j, "stray", 1)
       ELSE IF "labels" \notin DOMAIN meta
       THEN TrackEnd(j, "KeyError", 0)
       ELSE IF LABEL_PARENT_NAME \notin meta["labels"]
       THEN TrackEnd(j, "stray", 1)
       ELSE /\ tpc' = [tpc EXCEPT ![j] = "get_parent"]
            /\ toutcome' = [toutcome EXCEPT ![j] = "none"]
            /\ job_deletes' = [job_deletes EXCEPT ![j] = 0]
    /\ UNCHANGED <<custom_object, parent_exists>>
    /\ UNCHANGED <<statusVars, jobVars, ioVars, cephVars, coreVars>>

\* track_job_status, lines 270-274 and 280-287: get_parent and the patch
\* built from the parent that was read.  Without the parent the API answers
\* 404 and the job of an event other than delete is deleted; another
\* ApiException (~ok) is raised again.
get_parent(j, ok) ==
    /\ tpc[j] = "get_parent"
    /\ IF ~parent_exists
       THEN /\ TrackEnd(j, "parent_gone",
                        IF event[j].reason # "delete" THEN 1 ELSE 0)
            /\ UNCHANGED <<parent, parent_patch>>
       ELSE IF ~ok
       THEN /\ TrackEnd(j, "ApiException", 0)
            /\ UNCHANGED <<parent, parent_patch>>
       ELSE /\ parent' = [parent EXCEPT ![j] = custom_object]
            /\ parent_patch' =
                 [parent_patch EXCEPT ![j] =
                    [status |-> build_resource_status_dependant_jobs(
                                    Get(custom_object, "status", EmptyDict),
                                    event[j].body,
                                    event[j].reason = "delete")]]
            /\ tpc' = [tpc EXCEPT ![j] = "patch_parent"]
            /\ UNCHANGED <<toutcome, job_deletes>>
    /\ UNCHANGED <<custom_object, parent_exists, event, nevents>>
    /\ UNCHANGED <<statusVars, jobVars, ioVars, cephVars, coreVars>>

\* patch_*_custom_object(body=parent_patch): the keys of the patch's status
\* replace those of the resource's status, a list as a whole
patch_custom_object(obj, patch) ==
    LET old == Get(obj, "status", EmptyDict) IN
    [k \in DOMAIN obj \cup {"status"} |->
        IF k = "status"
        THEN [x \in DOMAIN old \cup DOMAIN patch["status"] |->
                IF x \in DOMAIN patch["status"] THEN patch["status"][x]
                ELSE old[x]]
        ELSE obj[k]]

\* track_job_status, lines 275-279, and patch_parent, lines 140-165: the
\* parent is patched.  A parent that is gone (404) or being deleted (422)
\* is logged only; another ApiException (~ok) is raised.
patch_parent(j, ok) ==
    /\ tpc[j] = "patch_parent"
    /\ IF ~parent_exists
       THEN /\ TrackEnd(j, "not_patched", 0)
            /\ UNCHANGED custom_object
       ELSE IF ~ok
       THEN /\ TrackEnd(j, "ApiException", 0)
            /\ UNCHANGED custom_object
       ELSE /\ custom_object' = patch_custom_object(custom_object, parent_patch[j])
            /\ TrackEnd(j, "patched", 0)
    /\ UNCHANGED <<parent_exists, event, parent, parent_patch, nevents>>
    /\ UNCHANGED <<statusVars, jobVars, ioVars, cephVars, coreVars>>

\* the parent resource is deleted while its jobs send events
parent_deleted ==
    /\ parent_exists
    /\ parent_exists' = FALSE
    /\ UNCHANGED <<custom_object, tpc, event, parent, parent_patch, toutcome,
                   job_deletes, nevents>>
    /\ UNCHANGED <<statusVars, jobVars, ioVars, cephVars, coreVars>>

NextTrack ==
    \/ \E j \in Jobs, reason \in Reasons, namespace \in Namespaces,
          meta \in Metas, js \in EventStatuses :
            track_job_status(j, reason, namespace, meta, js)
    \/ \E j \in Jobs, ok \in BOOLEAN : get_parent(j, ok)
    \/ \E j \in Jobs, ok \in BOOLEAN : patch_parent(j, ok)
    \/ parent_deleted

\* the data of the entries a status list starts with
InitialData == {build_dependant_job_status(js) : js \in JobStatuses}

\* the status dicts whose dependant-jobs list has at most one entry per uid
InitialStatus ==
    LET entries == {StatusListEntry(Job(u, EmptyDict), d) :
                      u \in Jobs, d \in InitialData}
        lists == {l \in UNION {[1..n -> entries] : n \in 0..NJobs} :
                    \A i \in DOMAIN l, k \in DOMAIN l :
                       i # k => l[i][RESOURCE_STATUS_LIST_OBJECT_REFERENCE]
                                  # l[k][RESOURCE_STATUS_LIST_OBJECT_REFERENCE]}
    IN {EmptyDict} \cup {[dependantJobs |-> l] : l \in lists}

\* build_resource_status_dependant_jobs was not called yet
StatusIdle ==
    /\ status = EmptyDict
    /\ dependant_jobs = EmptyDict
    /\ ops = <<>>

\* one call of build_resource_status_dependant_jobs in a sequence of calls:
\* the status it is given is what the call before returned.  The function
\* assigns to the copy new_lst only (lines 175-183) or builds a new list
\* (195-197), so the dict it was given is after the call what it was before.
StatusCall(uid, js, delete) ==
    /\ Len(ops) < MaxOps
    /\ status' = dependant_jobs
    /\ dependant_jobs' =
         build_resource_status_dependant_jobs(dependant_jobs, Job(uid, js),
                                              delete)
    /\ ops' = Append(ops, [uid |-> uid, delete |-> delete, job_status |-> js])
    /\ UNCHANGED <<trackVars, jobVars, ioVars, cephVars, coreVars>>

NextStatus ==
    \/ \E uid \in Jobs, js \in JobStatuses : StatusCall(uid, js, FALSE)
    \/ \E uid \in Jobs : StatusCall(uid, EmptyDict, TRUE)

\* the value of derived_status before derive_job_status has returned
NotDerived == [start_time |-> None, completion_time |-> None, status |-> "none"]

\* neither derive_job_status nor build_dependant_job_status was called
JobIdle ==
    /\ job_status = EmptyDict
    /\ derived_status = NotDerived
    /\ dependant_job_status = EmptyDict

\* derive_job_status(job_status) is called
derive_job_status_call ==
    /\ derived_status = NotDerived
    /\ derived_status' = derive_job_status(job_status)
    /\ UNCHANGED <<job_status, dependant_job_status>>
    /\ UNCHANGED <<trackVars, statusVars, ioVars, cephVars, coreVars>>

\* build_dependant_job_status(job_status) is called
build_dependant_job_status_call ==
    /\ dependant_job_status = EmptyDict
    /\ dependant_job_status' = build_dependant_job_status(job_status)
    /\ UNCHANGED <<job_status, derived_status>>
    /\ UNCHANGED <<trackVars, statusVars, ioVars, cephVars, coreVars>>

NextJobStatus ==
    \/ derive_job_status_call
    \/ build_dependant_job_status_call

\* nothing of the operator has run
K8sIdle == TrackIdle /\ StatusIdle /\ JobIdle

\* the script with any number of receivers connected to its signals
InitCeph == IOInit /\ CephInit /\ CoreInit /\ K8sIdle

CephSpec == InitCeph /\ [][NextCeph]_vars

\* the state of the script while only the engine is looked at
CephIdle ==
    /\ CephInit
    /\ snaps = <<>>
    /\ observers = [sig \in Signals |-> 0]
    /\ CoreInit

Init == IOInit /\ CephIdle /\ K8sIdle

\* the script run on a volume that is written to, with one receiver
\* connected to each signal
InitDiff ==
    /\ IOInit
    /\ CephInit
    /\ snaps = <<>>
    /\ observers = [sig \in Signals |-> 1]
    /\ CoreInit
    /\ K8sIdle

\* the assembler and the restore of the versions it makes
InitCore == IOInit /\ CephIdle /\ K8sIdle

CoreSpec == InitCore /\ [][NextCore]_vars

NextDiff ==
    \/ NextCeph
    \/ \E b \in Blocks : Write(b)

DiffSpec == InitDiff /\ [][NextDiff]_vars

Spec == Init /\ [][NextIO]_vars

\* the job handlers of the operator, for a parent with or without a status
InitTrack ==
    /\ IOInit /\ CephIdle
    /\ TrackIdle /\ StatusIdle /\ JobIdle

TrackSpec == InitTrack /\ [][NextTrack]_vars

\* sequences of build_resource_status_dependant_jobs calls on a status list
InitStatus ==
    /\ IOInit /\ CephIdle
    /\ TrackIdle /\ JobIdle
    /\ status \in InitialStatus
    /\ dependant_jobs = status
    /\ ops = <<>>

StatusSpec == InitStatus /\ [][NextStatus]_vars

\* derive_job_status and build_dependant_job_status on any job status
InitJobStatus ==
    /\ IOInit /\ CephIdle
    /\ TrackIdle /\ StatusIdle
    /\ job_status \in JobStatuses
    /\ derived_status = NotDerived
    /\ dependant_job_status = EmptyDict

JobStatusSpec == InitJobStatus /\ [][NextJobStatus]_vars

\* a step of the thread that is inside close
CloseStep == CloseCancel \/ CloseDrainStart \/ CloseDrainNext \/ CloseShutdown

\* the scheduling the liveness of close rests on: the worker threads and the
\* thread inside close are not all suspended forever while one of them can
\* take a step (a backend read that has started terminates)
\* an engine that is opened, given reads and closed while the workers run
NextClose ==
    \/ open_r
    \/ read
    \/ WorkerTake
    \/ \E f \in Ids : read_with_acquire(f)
    \/ \E f \in Ids, ok \in BOOLEAN : backend_read(f, ok)
    \/ close
    \/ CloseCancel
    \/ CloseDrainStart
    \/ CloseDrainNext
    \/ CloseShutdown

FairSpec == Init /\ [][NextClose]_vars /\ WF_vars(Worker \/ CloseStep)

TypeOK ==
    /\ read_semaphore \in 0..Permits
    /\ Cardinality(Running) <= SimultaneousReads

(***************************************************************************)
(* Properties of IOBase                                                    *)
(***************************************************************************)
Closing == cpc \in {"close_cancel", "close_drain", "close_shutdown"}

\* ids of the outcomes the generator has yielded
YieldedIds == {genYielded[k][1] : k \in DOMAIN genYielded}

C3_DrainExactlyOnce ==
    /\ \A i \in Ids : yields[i] <= 1
    /\ \A j, k \in DOMAIN genYielded :
          j < k => /\ genYielded[j][1] # genYielded[k][1]
                   /\ genYielded[j][3] < genYielded[k][3]
    /\ \A k \in DOMAIN genYielded :
          /\ genYielded[k][1] \in genSnap
          /\ genYielded[k][1] \notin Range(read_futures)
          /\ genYielded[k][2] \in {"data", "error", "cancelled"}
          /\ genYielded[k][3] \in 1..ndone
          /\ \A c \in DOMAIN completed :
                completed[c][1] \in genSnap => genYielded[k][3] < completed[c][2]
    /\ (gen = "ended" /\ genSub = nsub) =>
          /\ YieldedIds = genSnap
          /\ read_futures = <<>>
          /\ \A i \in 1..nsub : yields[i] = 1

\* C3 witness: an iteration has ended over a closed set in which one read
\* succeeded, one failed and one was cancelled.
C3_Witness ==
    /\ gen = "ended"
    /\ genSub = nsub
    /\ \E k \in DOMAIN genYielded : genYielded[k][2] = "data"
    /\ \E k \in DOMAIN genYielded : genYielded[k][2] = "error"
    /\ \E k \in DOMAIN genYielded : genYielded[k][2] = "cancelled"

\* C4: no permit leaks: every permit is either free or held by exactly one
\* undrained read that acquired it, and when close has returned all N + Q
\* permits are free again (none released for a cancelled read).
C4_NoPermitLeak ==
    /\ read_executor # "none" =>
          read_semaphore + Cardinality(Holders) = Permits
    /\ cpc = "closed" =>
          /\ read_semaphore = Permits
          /\ read_futures = <<>>

\* C4 witness: close has returned after it cancelled a queued read and
\* drained a finished one.
C4_Witness ==
    /\ cpc = "closed"
    /\ \E k \in DOMAIN genYielded : genYielded[k][2] = "cancelled"
    /\ \E k \in DOMAIN genYielded : genYielded[k][2] \in {"data", "error"}

\* C5: when every backend read terminates, close terminates.
C5_CloseTerminates == Closing ~> (cpc = "closed")

\* C5 witness: inside close every worker is blocked waiting for a permit
\* because all N + Q permits are held by finished, undrained reads.
C5_Witness ==
    /\ Closing
    /\ read_semaphore = 0
    /\ Cardinality({f \in Ids : fstate[f] = "running"}) = SimultaneousReads
    /\ Cardinality({f \in Range(read_futures) : fstate[f] \in {"ok", "err"}}) = Permits

\* C6: the permit of an asynchronous read stays held when the worker finishes
\* the backend read; a permit is given back only by the retrieval of the
\* outcome of one read that holds a permit.
C6_ReleaseOnRetrieval ==
    [][read_executor = "running" =>
         /\ (\E f \in Ids : fstate[f] = "reading" /\ fstate'[f] \in {"ok", "err"})
               => read_semaphore' = read_semaphore
         /\ read_semaphore' > read_semaphore =>
               \E f \in Holders :
                  /\ fstate[f] \in {"ok", "err"}
                  /\ yields'[f] = yields[f] + 1
                  /\ read_futures' = Remove(read_futures, f)
                  /\ read_semaphore' = read_semaphore + 1]_vars

\* C6 witness: a finished read whose outcome was not retrieved holds a permit
\* after another read's permit was given back by a retrieval.
C6_Witness ==
    /\ \E f \in Holders : fstate[f] \in {"ok", "err"}
    /\ \E k \in DOMAIN genYielded : genYielded[k][2] \in {"data", "error"}
    /\ read_semaphore < Permits

(***************************************************************************)
(* Properties of scripts/ceph.py                                           *)
(***************************************************************************)
\* how often signal x was sent during the call
Count(s, x) == Cardinality({k \in DOMAIN s : s[k] = x})

\* C7: a finished call of backup has sent backup_pre first and exactly one of
\* backup_post_success and backup_post_error: the success signal when the
\* backup produced its result, the error signal when it failed.
C7_BackupNotifies ==
    (op = "backup" /\ pc = "done") =>
        /\ log[1] = "backup_pre"
        /\ Count(log, "backup_post_success") + Count(log, "backup_post_error") = 1
        /\ result # 0 => Count(log, "backup_post_success") = 1
        /\ result = 0 => Count(log, "backup_post_error") = 1

\* C8: a finished call of restore has sent restore_pre first and exactly one
\* of restore_post_success and restore_post_error, and no signal of another
\* operation.
C8_RestoreNotifies ==
    (op = "restore" /\ pc = "done") =>
        /\ log[1] = "restore_pre"
        /\ Count(log, "restore_post_success") + Count(log, "restore_post_error") = 1
        /\ lastSig = "none" => Count(log, "restore_post_success") = 1
        /\ lastSig # "none" => Count(log, "restore_post_error") = 1
        /\ \A k \in DOMAIN log :
              log[k] \in {"restore_pre", "restore_post_success", "restore_post_error"}

\* C9: after a failure every receiver of the post_error signal has been
\* called once, the exception is re-raised exactly when some receiver voted
\* for it, and it is swallowed only when every receiver voted against.
C9_VotesAggregated ==
    lastSig # "none" =>
        /\ Len(lastVotes) = observers[lastSig]
        /\ Count(log, lastSig) = 1
        /\ lastCaught # "none"
        /\ lastDecision = "reraise" <=> \E k \in DOMAIN lastVotes : lastVotes[k]
        /\ lastDecision = "suppress" => \A k \in DOMAIN lastVotes : ~lastVotes[k]
        /\ (pc = "done" /\ lastDecision = "reraise") =>
              (outcome = "raised" /\ exc = lastCaught)
        /\ (pc = "done" /\ lastDecision = "suppress") =>
              (outcome = "returned" /\ exc = "none")
        /\ (lastSig = "snapshot_create_post_error" /\ lastDecision = "reraise") =>
              (pc = "b_except" /\ exc = lastCaught)
        /\ (lastSig = "snapshot_create_post_error" /\ pc = "diff") =>
              (lastDecision = "suppress" /\ exc = "none")

\* C9 witness: a failed backup whose two receivers voted differently was
\* re-raised.
C9_Witness ==
    /\ pc = "done"
    /\ lastSig = "backup_post_error"
    /\ lastVotes = <<FALSE, TRUE>>
    /\ outcome = "raised"

\* C10: once rbd snap create has failed, the call runs no rbd diff, no
\* rbd snap rm of the previous snapshot and no benji backup, whatever the
\* receivers voted.
C10_NoWorkAfterSnapshotFailure ==
    [][snapFailed => ~(pc \in {"diff", "d_rm_last", "benji_backup"} /\ pc' # pc)]_vars

\* the prefixed snapshots of the image, newest last
BenjiSnapshots == SelectSeq(snaps, StartsWithPrefix)

C12_DifferentialEqualsFull ==
    /\ (kind = "differential" /\ pc = "d_rm_last") =>
          /\ versions[base_version_uid].blocks = snapdata[last_snapshot]
          /\ hints = rbd_diff(last_snapshot, snapshot)
          /\ snapshot # last_snapshot
          /\ snapdata[snapshot] = image
    /\ (kind = "differential" /\ pc = "b_return") =>
          /\ snapshot \in DOMAIN snapdata
          /\ versions[result].blocks = snapdata[snapshot]

\* C13: a version becomes valid only from incomplete and only when every
\* block is recorded and every non-sparse block has its stored object; a run
\* in which a block failed never yields a valid version.
C13_ValidOnlyComplete ==
    /\ [](vstatus = "valid" =>
            /\ ~Aborted
            /\ \A b \in Blocks :
                 /\ bstate[b] = "recorded"
                 /\ vmap[b] = source[b]
                 /\ vmap[b] # Null =>
                      /\ vmap[b] \in DOMAIN objects
                      /\ objects[vmap[b]] = Payload(source[b]))
    /\ [][/\ (vstatus' = "valid" /\ vstatus # "valid") => vstatus = "incomplete"
          /\ (vstatus' = "incomplete" /\ vstatus # "incomplete") =>
                \A b \in Blocks : vmap'[b] = Unset
          /\ (Aborted /\ vstatus = "incomplete") =>
                vstatus' \in {"incomplete", "invalid"}]_vars

\* C13 witness: a valid version with a stored block and a sparse block
C13_Witness ==
    /\ vstatus = "valid"
    /\ \E b \in Blocks : vmap[b] # Null /\ vmap[b] \in DOMAIN objects
    /\ \E b \in Blocks : vmap[b] = Null

\* C14: per checksum one store is attempted in a run and one StoredObject is
\* ever committed; a block is recorded with a checksum only once its object
\* is stored, a block that found the checksum claimed waits; a stored object
\* is never overwritten.
C14_FirstWriterWins ==
    /\ [](/\ \A c \in Sums : puts[c] <= 1 /\ commits[c] <= 1
          /\ \A b \in Blocks :
               /\ vmap[b] \notin {Null, Unset} => vmap[b] \in DOMAIN objects
               /\ bstate[b] \in {"storing", "waiting"} => vmap[b] = Unset
               /\ bstate[b] = "storing" => source[b] \in claimed
          /\ \A b1 \in Blocks, b2 \in Blocks :
               (b1 # b2 /\ bstate[b1] = "storing" /\ bstate[b2] = "storing")
                  => source[b1] # source[b2])
    /\ [][\A c \in DOMAIN objects :
            /\ c \in DOMAIN objects'
            /\ objects'[c] = objects[c]
            /\ commits'[c] = commits[c]]_vars

\* C14 witness: the second of two blocks with the same new checksum waits
\* while the first one's store is running
C14_Witness ==
    \E b1 \in Blocks, b2 \in Blocks :
        /\ b1 # b2
        /\ source[b1] = source[b2]
        /\ bstate[b1] = "storing"
        /\ bstate[b2] = "waiting"

\* C15: a get is attempted at most readObjectAttempts times per object; when
\* all attempts fail ReadFailed is surfaced and the restore aborts with it;
\* an aborted restore writes nothing more to the destination.
C15_ReadAttemptsBounded ==
    /\ [](/\ \A b \in Blocks :
               /\ attempts[b] <= readObjectAttempts
               /\ rstate[b] = "ReadFailed" => attempts[b] = readObjectAttempts
          /\ rstatus = "failed" =>
               /\ rerror = "ReadFailed"
               /\ \E b \in Blocks : rstate[b] = "ReadFailed"
          /\ rstatus = "done" => written = Blocks)
    /\ [][(rstatus = "failed" /\ rstatus' = "failed") => written' = written]_vars

\* C15 witness: a restore aborted with ReadFailed after the last allowed
\* attempt, the fetched result of another block dropped unwritten
C15_Witness ==
    /\ rstatus = "failed"
    /\ \E b \in Blocks : rstate[b] = "ReadFailed" /\ attempts[b] = readObjectAttempts
    /\ \E b \in Blocks : rstate[b] = "dropped" /\ b \notin written

\* C16 as stated: once close is called no read starts its backend read any
\* more, and a backend read that is executing is not aborted.
C16_NoReadStartsAfterClose ==
    [][Closing =>
         \A f \in Ids :
            /\ fstate'[f] = "reading" => fstate[f] = "reading"
            /\ fstate[f] = "reading" => fstate'[f] \in {"reading", "ok", "err"}]_vars

\* C16 amended: close cancels every read that no worker has taken up when
\* the cancel loop reaches it, and a cancelled read never executes a backend
\* read; a read a worker has taken up, also one that still waits for its
\* permit, is not cancelled and runs to completion or failure.
C16_CloseCancelsPending ==
    /\ [](cpc \in {"close_drain", "close_shutdown"} =>
            \A f \in Range(read_futures) : fstate[f] # "pending")
    /\ [][/\ (cpc = "close_cancel" /\ ci' = ci + 1
                /\ fstate[read_futures[ci]] = "pending")
              => fstate'[read_futures[ci]] = "cancelled"
          /\ cpc # "closed" =>
               \A f \in Ids :
                  /\ Cancelled(f) => fstate'[f] \in {"cancelled",
                                        "cancelled_notified", "retrieved"}
                  /\ fstate[f] = "running" => fstate'[f] \in {"running", "reading"}
                  /\ fstate[f] = "reading" => fstate'[f] \in {"reading", "ok", "err"}
                  /\ fstate'[f] = "cancelled" =>
                       fstate[f] \in {"pending", "cancelled"}]_vars

\* C16 witness: during close one read is cancelled while another one, taken
\* up by a worker before, starts its backend read
C16_Witness ==
    /\ cpc = "close_drain"
    /\ \E f \in Ids : Cancelled(f)
    /\ \E g \in Ids : fstate[g] = "reading" /\ read_semaphore = 0

\* C17: an engine instance only moves unopened -> opened -> closed: reads
\* are accepted only while it is opened, and once closed it is never opened
\* again.
C17_NoReopen ==
    [][/\ nsub' > nsub => (read_executor = "running" /\ cpc = "ready")
       /\ read_executor' = "none" => read_executor = "none"
       /\ read_executor' = "running" => read_executor \in {"none", "running"}
       /\ read_executor = "shutdown" => read_executor' = "shutdown"]_vars

\* C18: close consumes the cancellation and error outcomes of the
\* outstanding reads in its drain and goes on to return normally: after each
\* outcome it retrieves it is still draining, and when it has returned every
\* outstanding read's outcome was retrieved and the pool is shut down.
C18_CloseSwallowsOutcomes ==
    /\ [](cpc \in {"unopened", "ready", "sync_read", "close_cancel",
                   "close_drain", "close_shutdown", "closed"})
    /\ []((cpc = "closed" /\ gen = "ended") =>
            /\ read_futures = <<>>
            /\ YieldedIds = genSnap
            /\ read_executor = "shutdown")
    /\ [][(cpc = "close_drain" /\ Len(genYielded') > Len(genYielded))
             => cpc' = "close_drain"]_vars

\* C18 witness: close has returned after its drain retrieved a failed read
\* and a cancelled read
C18_Witness ==
    /\ cpc = "closed"
    /\ read_executor = "shutdown"
    /\ \E k \in DOMAIN genYielded : genYielded[k][2] = "error"
    /\ \E k \in DOMAIN genYielded : genYielded[k][2] = "cancelled"

\* the engine's queue state: what a synchronous read must leave alone
queueVars == <<read_executor, read_futures, read_semaphore, fstate,
               work_queue, nsub, genVars, completed, ndone, nfail, yields>>

\* C19: a synchronous read runs in-line in the calling thread: entering and
\* leaving it changes neither the semaphore nor the futures nor anything
\* else of the queue, it hands the data (or the error) to its caller, and it
\* can start and end whatever the number of free permits is.
C19_SyncBypass ==
    /\ []((cpc = "ready" /\ read_executor = "running") => ENABLED read_sync)
    /\ [](cpc = "sync_read" =>
            /\ sync_result = "none"
            /\ ENABLED read_sync_return(TRUE))
    /\ [][/\ (cpc' = "sync_read" /\ cpc # "sync_read") =>
                (cpc = "ready" /\ UNCHANGED queueVars)
          /\ (cpc = "sync_read" /\ cpc' # "sync_read") =>
                /\ cpc' = "ready"
                /\ sync_result' \in {"data", "error"}
                /\ UNCHANGED queueVars]_vars

\* C19 witness: a synchronous read has returned its data while all N + Q
\* permits were held
C19_Witness ==
    /\ cpc = "ready"
    /\ sync_result = "data"
    /\ read_semaphore = 0
    /\ Cardinality(Holders) = Permits

\* backend reads of asynchronous reads that are executing
Reading == {f \in Ids : fstate[f] = "reading"}

\* C20 as stated: while the engine is opened for reading every executing
\* backend read is one of a worker that holds a permit, at most
\* simultaneousReads backend reads execute at once, and at most N + Q reads
\* hold a permit.
C20_EveryReadHoldsPermit ==
    read_executor = "running" =>
        /\ cpc # "sync_read"
        /\ Reading \subseteq Holders
        /\ Cardinality(Reading) + (IF cpc = "sync_read" THEN 1 ELSE 0)
              <= SimultaneousReads
        /\ Cardinality(Holders) <= Permits

\* C20 amended: every executing backend read of an asynchronous read holds a
\* permit, at most simultaneousReads of them execute at once (a synchronous
\* read executes in the calling thread besides, without a permit), and the
\* reads holding a permit are the permits taken, at most N + Q.
C20_AsyncReadsHoldPermits ==
    read_executor = "running" =>
        /\ Reading \subseteq Holders
        /\ Cardinality(Reading) <= SimultaneousReads
        /\ Cardinality(Reading) + (IF cpc = "sync_read" THEN 1 ELSE 0)
              <= SimultaneousReads + 1
        /\ Cardinality(Holders) = Permits - read_semaphore
        /\ Cardinality(Holders) <= Permits

\* C20 witness: a synchronous read executes while simultaneousReads workers
\* execute backend reads and every permit is taken
C20_Witness ==
    /\ cpc = "sync_read"
    /\ Cardinality(Reading) = SimultaneousReads
    /\ read_semaphore = 0

\* the post_error signal of the except clause the script is in
ErrorSignal ==
    CASE pc = "sc_except" -> "snapshot_create_post_error"
      [] pc = "b_except" -> "backup_post_error"
      [] pc = "r_except" -> "restore_post_error"
      [] OTHER -> "none"

\* C21: when no observer is registered for the post-error event, a failure
\* in snapshot_create, backup or restore is neither swallowed nor replaced:
\* the except clause leaves with the exception it caught.
C21_OriginalExceptionPropagates ==
    [][(ErrorSignal # "none" /\ observers[ErrorSignal] = 0)
          => (exc' = exc /\ exc' # "none")]_vars

\* C25: whenever a backup run returns its result, exactly one snapshot with
\* the 'b-' prefix exists for the image, and it is the snapshot the new
\* valid version was taken from.
C25_OneSnapshotAfterBackup ==
    pc = "b_return" =>
        /\ BenjiSnapshots = <<snapshot>>
        /\ result \in DOMAIN versions
        /\ versions[result].snap = snapshot
        /\ versions[result].status = "valid"

\* C25 witness: a differential backup returns its result after the snapshot
\* of its base version was removed
C25_Witness ==
    /\ pc = "b_return"
    /\ kind = "differential"
    /\ last_snapshot # snapshot
    /\ last_snapshot \notin Range(snaps)
    /\ versions[base_version_uid].snap = last_snapshot

\* the dependant-jobs list of a status dict
StatusList(st) == Get(st, RESOURCE_STATUS_DEPENDANT_JOBS, <<>>)

\* the positions of the entries of a job in a status list
EntriesOf(lst, uid) ==
    {i \in DOMAIN lst :
        lst[i][RESOURCE_STATUS_LIST_OBJECT_REFERENCE]["uid"] = uid}

\* the handlers of all job events have finished, each with its patch
AllPatched ==
    \A j \in Jobs :
        \/ tpc[j] = "idle"
        \/ tpc[j] = "done" /\ toutcome[j] = "patched"

\* C22: when the events of distinct jobs of one parent are handled
\* concurrently, no update is lost: once all handlers have finished, the
\* parent's dependant-jobs list has an entry for every job whose last event
\* was not a delete and none for a job whose last event was a delete.
C22_NoLostUpdate ==
    AllPatched =>
        \A j \in Jobs :
            tpc[j] = "done" =>
                (EntriesOf(StatusList(Get(custom_object, "status", EmptyDict)),
                           j) # {}
                   <=> event[j].reason # "delete")

\* C23: track_job_status deletes the job exactly when the event is in the
\* operator's namespace, is not a delete event, and the job lacks the parent
\* labels or its parent is gone (404); for a delete event and for an event
\* of another namespace it deletes nothing and raises no KeyError.
C23_DeletesOnlyStrayJobs ==
    \A j \in Jobs :
        tpc[j] = "done" =>
            LET e == event[j]
                lacks == \/ "labels" \notin DOMAIN e.meta
                         \/ LABEL_PARENT_NAME \notin e.meta["labels"]
            IN /\ job_deletes[j] > 0 <=>
                     /\ e.namespace = service_account_namespace
                     /\ e.reason # "delete"
                     /\ (lacks \/ toutcome[j] = "parent_gone")
               /\ (e.reason = "delete"
                      \/ e.namespace # service_account_namespace)
                    => (job_deletes[j] = 0 /\ toutcome[j] # "KeyError")

\* the greatest element of a non-empty set of numbers
Max(S) == CHOOSE x \in S : \A y \in S : y <= x

\* the last call for a job in ops (0: none)
LastOp(uid) ==
    LET I == {i \in DOMAIN ops : ops[i].uid = uid}
    IN IF I = {} THEN 0 ELSE Max(I)

\* an entry without its object reference
EntryData(e) ==
    [k \in DOMAIN e \ {RESOURCE_STATUS_LIST_OBJECT_REFERENCE} |-> e[k]]

\* a status list without the entries of a job
OtherEntries(lst, uid) ==
    SelectSeq(lst, LAMBDA e :
        e[RESOURCE_STATUS_LIST_OBJECT_REFERENCE]["uid"] # uid)

\* the returned list has one entry, with the data Expected(uid, job status),
\* for a job whose last call was an update and none for a job whose last
\* call was a delete
TracksLastOperation(Expected(_, _)) ==
    \A uid \in Jobs :
        LET n == LastOp(uid)
            lst == StatusList(dependant_jobs)
            I == EntriesOf(lst, uid)
        IN /\ (n > 0 /\ ~ops[n].delete) =>
                 /\ Cardinality(I) = 1
                 /\ \A i \in I :
                      EntryData(lst[i]) = Expected(uid, ops[n].job_status)
           /\ (n > 0 /\ ops[n].delete) => I = {}

\* a call leaves the entries of the other jobs and their order as they
\* are, and the status it was given is not changed
OthersUntouched ==
    [][ops' # ops =>
          LET uid == ops'[Len(ops')].uid
          IN /\ OtherEntries(StatusList(dependant_jobs'), uid)
                  = OtherEntries(StatusList(dependant_jobs), uid)
             /\ status' = dependant_jobs]_vars

\* C24: after any sequence of build_resource_status_dependant_jobs updates
\* and deletes on a list with at most one entry per uid, the list has
\* exactly one entry for each uid whose last operation was an update,
\* carrying the status of the job of that update, and none for a uid whose
\* last operation was a delete; the other entries and their order are
\* unchanged and the list given is not mutated.
C24_StatusListTracksLastOperation ==
    /\ []TracksLastOperation(LAMBDA uid, js : build_dependant_job_status(js))
    /\ OthersUntouched

\* the same with the data the code derives, which is that of the Job object
\* and not of its status
StatusListDiscipline ==
    /\ []TracksLastOperation(LAMBDA uid, js :
                               build_dependant_job_status(Job(uid, js)))
    /\ OthersUntouched

\* the state the claim names for a job status
ExpectedState(js) ==
    IF JOB_STATUS_COMPLETION_TIME \in DOMAIN js
    THEN RESOURCE_JOB_STATUS_SUCCEEDED
    ELSE IF /\ JOB_STATUS_START_TIME \in DOMAIN js
            /\ JOB_STATUS_FAILED \in DOMAIN js
            /\ js[JOB_STATUS_FAILED] > 0
    THEN RESOURCE_JOB_STATUS_FAILED
    ELSE IF JOB_STATUS_START_TIME \in DOMAIN js
    THEN RESOURCE_JOB_STATUS_RUNNING
    ELSE RESOURCE_JOB_STATUS_PENDING

\* C26: derive_job_status maps every job status to exactly one of four
\* states: succeeded with a completion time; otherwise failed with a start
\* time and a failed count above 0; otherwise running with a start time;
\* otherwise pending.  build_dependant_job_status reports that state and
\* holds the start and the completion time exactly when they are present.
C26_JobStatusMapping ==
    /\ derived_status # NotDerived =>
          /\ derived_status.status = ExpectedState(job_status)
          /\ derived_status.start_time
               = Get(job_status, JOB_STATUS_START_TIME, None)
          /\ derived_status.completion_time
               = Get(job_status, JOB_STATUS_COMPLETION_TIME, None)
    /\ DOMAIN dependant_job_status # {} =>
          /\ DOMAIN dependant_job_status =
                {RESOURCE_STATUS_DEPENDANT_JOBS_STATUS}
                  \cup (DOMAIN job_status \cap {JOB_STATUS_START_TIME,
                                                 JOB_STATUS_COMPLETION_TIME})
          /\ dependant_job_status[RESOURCE_STATUS_DEPENDANT_JOBS_STATUS]
               = ExpectedState(job_status)
          /\ \A k \in DOMAIN dependant_job_status
                       \ {RESOURCE_STATUS_DEPENDANT_JOBS_STATUS} :
                dependant_job_status[k] = job_status[k]

\* C26 witness: both functions have returned for the status of a job that
\* has started, counts a failed pod and has no completion time
C26_Witness ==
    /\ JOB_STATUS_START_TIME \in DOMAIN job_status
    /\ JOB_STATUS_COMPLETION_TIME \notin DOMAIN job_status
    /\ Get(job_status, JOB_STATUS_FAILED, 0) > 0
    /\ derived_status.status = RESOURCE_JOB_STATUS_FAILED
    /\ DOMAIN dependant_job_status =
          {RESOURCE_STATUS_DEPENDANT_JOBS_STATUS, JOB_STATUS_START_TIME}

====
